---- MODULE Spec2Model ----
(***************************************************************************)
(* A model of the hyperscript virtual-node builder of                      *)
(* devtools/server/actors/highlighters/utils/hyper-script.js: the selector *)
(* tokenizer, createVNode, the overloads of h and the DOM tag factories.   *)
(*                                                                         *)
(* JavaScript values are tagged records; objects and arrays live in a heap *)
(* (a sequence of cells addressed by their index) so that aliasing and     *)
(* mutation of the caller's objects are part of the state.  Strings are    *)
(* sequences of one-character strings, so that tokenizing, concatenation   *)
(* and upper-casing are computed and not assumed.                          *)
(***************************************************************************)
EXTENDS Integers, Sequences, FiniteSets, TLC

VARIABLES heap, last, prev, phase, nchild, nagain,
          renderers, document, rendered, nset, nrender,
          events, fired, log, emits, ephase, non, nrun, noff,
          isLoadingRecords, newRequest, calls, loads, storage, elements, observing

\* the state of the builder's caller, and that of the renderers and their document
hvars == <<heap, last, prev, phase, nchild, nagain>>
rvars == <<renderers, document, rendered, nset, nrender>>
\* the state of an event target and of its listeners, and the history of the calls
evars == <<events, fired, log, emits, ephase, non, nrun, noff>>
\* the state of one ManageRecords instance: its two flags, the calls of
\* loadRecords and the executions of _loadRecords made so far, the promise of
\* the storage, whether _elements is still there, whether it observes
lvars == <<isLoadingRecords, newRequest, calls, loads, storage, elements, observing>>
vars == <<hvars, rvars, evars, lvars>>

-----------------------------------------------------------------------------
(* Bounds of the exploration.                                              *)

\* the longest list of #id / .class fragments appended to a selector's tag
MaxFrags == 2
\* the longest rest argument list of a call of h
MaxRest == 2
\* the number of child VNodes the caller builds before the outer call
MaxChildren == 1
\* how many times a call is repeated with identical arguments
MaxAgain == 1
\* the number of Renderer instances
MaxRenderers == 2
\* the number of setFormatterFor calls
MaxSets == 2
\* the number of render calls
MaxRenders == 2
\* the number of listeners registered before the first emit
MaxOn == 2
\* the number of emit and off calls that follow
MaxRun == 2
\* the number of registrations of a caller of once, of its off calls, and of
\* the emits that follow
MaxOnce == 2
MaxOff == 1
MaxEmit == 3
\* the number of calls of loadRecords, and of records in the storage
MaxCalls == 4
MaxRecords == 2

-----------------------------------------------------------------------------
(* Characters and strings.                                                 *)

Lower == <<"a","b","c","d","e","f","g","h","i","j","k","l","m",
           "n","o","p","q","r","s","t","u","v","w","x","y","z">>
Upper == <<"A","B","C","D","E","F","G","H","I","J","K","L","M",
           "N","O","P","Q","R","S","T","U","V","W","X","Y","Z">>
Digits == <<"0","1","2","3","4","5","6","7","8","9">>

Range(f) == {f[i] : i \in DOMAIN f}

\* the one element of a singleton: {F(x) : x \in {e}} computes e once and names it x
The(S) == CHOOSE x \in S : TRUE

\* the character class [\w+_-] of the selector pattern
IsWordChar(c) == c \in Range(Lower) \cup Range(Upper) \cup Range(Digits) \cup {"_", "+", "-"}

\* the character class [#.]
IsMark(c) == c \in {"#", "."}

toUpperCaseChar(c) ==
    IF c \in Range(Lower) THEN Upper[CHOOSE i \in DOMAIN Lower : Lower[i] = c] ELSE c

toUpperCase(s) == [i \in DOMAIN s |-> toUpperCaseChar(s[i])]

substr(s, n) == SubSeq(s, n + 1, Len(s))

startsWith(s, p) == Len(s) >= Len(p) /\ SubSeq(s, 1, Len(p)) = p

RECURSIVE join(_, _)
join(strs, sep) ==
    IF strs = <<>> THEN <<>>
    ELSE IF Len(strs) = 1 THEN strs[1]
    ELSE strs[1] \o sep \o join(Tail(strs), sep)

-----------------------------------------------------------------------------
(* JavaScript values and the heap.                                         *)

Undefined == [t |-> "undefined"]
Null == [t |-> "null"]
Str(s) == [t |-> "string", s |-> s]
Ref(r) == [t |-> "object", r |-> r]
Num(n) == [t |-> "number", n |-> n]
Bool(b) == [t |-> "boolean", b |-> b]
\* the outcome of a call that raised
TypeError == [t |-> "TypeError"]

SVG_NS == Str(<<"h","t","t","p",":","/","/","w","w","w",".","w","3",".","o","r","g",
                "/","2","0","0","0","/","s","v","g">>)

\* a heap cell: an object with its own properties in insertion order, and,
\* for an array, its elements
Cell(isArray, props, elems) == [array |-> isArray, props |-> props, elems |-> elems]
EmptyObject == Cell(FALSE, <<>>, <<>>)
ArrayOf(elems) == Cell(TRUE, <<>>, elems)

Alloc(hp, cell) == [heap |-> Append(hp, cell), ref |-> Ref(Len(hp) + 1)]

\* ToBoolean
Truthy(v) ==
    CASE v.t = "string" -> v.s # <<>>
      [] v.t = "object" -> TRUE
      [] v.t = "number" -> v.n # 0
      [] v.t = "boolean" -> v.b
      [] v.t = "function" -> TRUE
      [] v.t \in {"handler", "predicate"} -> TRUE
      [] OTHER -> FALSE

\* ToString of what the model concatenates
ToStr(v) ==
    CASE v.t = "string" -> v.s
      [] v.t = "undefined" -> <<"u","n","d","e","f","i","n","e","d">>
      [] v.t = "null" -> <<"n","u","l","l">>
      [] v.t = "number" /\ v.n = 0 -> <<"0">>
      [] v.t = "boolean" -> IF v.b THEN <<"t","r","u","e">> ELSE <<"f","a","l","s","e">>
      [] OTHER -> <<>>

\* k in o
HasKey(o, k) == \E i \in DOMAIN o.props : o.props[i].k = k

\* o[k]
Get(o, k) ==
    IF HasKey(o, k) THEN o.props[CHOOSE i \in DOMAIN o.props : o.props[i].k = k].v
    ELSE Undefined

\* o[k] = v: an existing key keeps its place, a new key goes last
Put(o, k, v) ==
    IF HasKey(o, k)
    THEN [o EXCEPT !.props = [i \in DOMAIN o.props |->
                                 IF o.props[i].k = k THEN [k |-> k, v |-> v] ELSE o.props[i]]]
    ELSE [o EXCEPT !.props = Append(o.props, [k |-> k, v |-> v])]

\* delete o[k]
Delete(o, k) == [o EXCEPT !.props = SelectSeq(o.props, LAMBDA e : e.k # k)]

Keys(o) == {o.props[i].k : i \in DOMAIN o.props}

-----------------------------------------------------------------------------
(* The selector tokenizer: selector.match(/[\w+_-]+|[#.][^#.]+/g).         *)

NotMark(c) == ~IsMark(c)

RECURSIVE WordRunEnd(_, _)
\* the last index of the longest run [\w+_-]+ that starts at i
WordRunEnd(s, i) ==
    IF i + 1 <= Len(s) /\ IsWordChar(s[i + 1]) THEN WordRunEnd(s, i + 1) ELSE i

RECURSIVE FragRunEnd(_, _)
\* the last index of the longest run [^#.]+ that starts at i
FragRunEnd(s, i) ==
    IF i + 1 <= Len(s) /\ NotMark(s[i + 1]) THEN FragRunEnd(s, i + 1) ELSE i

RECURSIVE MatchAll(_, _)
MatchAll(s, i) ==
    IF i > Len(s) THEN <<>>
    ELSE IF IsWordChar(s[i])
         THEN The({<<SubSeq(s, i, j)>> \o MatchAll(s, j + 1) : j \in {WordRunEnd(s, i)}})
    ELSE IF IsMark(s[i]) /\ i + 1 <= Len(s) /\ NotMark(s[i + 1])
         THEN The({<<SubSeq(s, i, j)>> \o MatchAll(s, j + 1) : j \in {FragRunEnd(s, i + 1)}})
    ELSE MatchAll(s, i + 1)

\* String.prototype.match with a global pattern answers null when nothing matches
matchSelector(selector) ==
    IF ~Truthy(selector) THEN [null |-> FALSE, parts |-> <<>>]
    ELSE LET m == MatchAll(selector.s, 1)
         IN  [null |-> m = <<>>, parts |-> m]

-----------------------------------------------------------------------------
(* createVNode and h.  Both take the heap and answer the heap after the    *)
(* call together with the value returned, or TypeError when the call       *)
(* raised.                                                                 *)

\* const isVNode = (target) => "tagName" in target && "properties" in target,
\* for a target that is an object; the in operator raises on a primitive
isVNode(hp, target) == HasKey(hp[target.r], "tagName") /\ HasKey(hp[target.r], "properties")

\* PartStep in which a bare svg tag sets no namespace
PartStepNoNamespace(acc, part) ==
    IF part[1] = "#" THEN [acc EXCEPT !.id = substr(part, 1)]
    ELSE IF part[1] = "." THEN [acc EXCEPT !.classes = Append(@, substr(part, 1))]
    ELSE IF startsWith(part, <<"s","v","g",":">>)
         THEN [acc EXCEPT !.tagName = substr(part, 4), !.obj = Put(@, "xmlns", SVG_NS)]
    ELSE [acc EXCEPT !.tagName = part]

\* one turn of the loop over the selector's parts
PartStep(acc, part) ==
    IF part[1] = "#" THEN [acc EXCEPT !.id = substr(part, 1)]
    ELSE IF part[1] = "." THEN [acc EXCEPT !.classes = Append(@, substr(part, 1))]
    ELSE IF startsWith(part, <<"s","v","g",":">>)
         THEN [acc EXCEPT !.tagName = substr(part, 4), !.obj = Put(@, "xmlns", SVG_NS)]
    ELSE [acc EXCEPT !.tagName = part,
                     !.obj = IF part = <<"s","v","g">> THEN Put(@, "xmlns", SVG_NS) ELSE @]

RECURSIVE PartLoop(_, _)
PartLoop(acc, parts) ==
    IF parts = <<>> THEN acc ELSE PartLoop(PartStep(acc, Head(parts)), Tail(parts))

\* DefaultId that writes the selector's id over an explicit one
DefaultIdOverwrites(obj, id) == IF id # <<>> THEN Put(obj, "id", Str(id)) ELSE obj

\* if (id && !("id" in properties)) properties.id = id
DefaultId(obj, id) ==
    IF id # <<>> /\ ~HasKey(obj, "id") THEN Put(obj, "id", Str(id)) ELSE obj

\* CaseOf that tests for the xmlns key, not for its value
CaseOfKeyPresent(obj, tagName) ==
    IF ~HasKey(obj, "xmlns") THEN toUpperCase(tagName) ELSE tagName

\* if (!properties.xmlns) tagName = tagName.toUpperCase()
CaseOf(obj, tagName) ==
    IF ~Truthy(Get(obj, "xmlns")) THEN toUpperCase(tagName) ELSE tagName

\* how Array.prototype.join writes an element
JoinStr(v) == IF v.t = "string" THEN v.s ELSE <<>>

\* PushClassName that puts the explicit className in front of the selector's classes
PushClassNameFirst(obj, classes) ==
    IF HasKey(obj, "className") THEN <<JoinStr(Get(obj, "className"))>> \o classes
    ELSE classes

\* if ("className" in properties) classes.push(properties.className)
PushClassName(obj, classes) ==
    IF HasKey(obj, "className") THEN Append(classes, JoinStr(Get(obj, "className")))
    ELSE classes

\* MergeClasses that leaves the class key in place
MergeClassesKeepsClass(obj, classes) ==
    IF Len(classes) > 0
    THEN LET moved == IF HasKey(obj, "class")
                      THEN Put(obj, "className", Get(obj, "class"))
                      ELSE obj
         IN  Put(moved, "className", Str(join(classes, <<" ">>)))
    ELSE obj

\* if (classes.length > 0) { if ("class" in properties) { properties.className =
\* properties.class; delete properties.class }
\* properties.className = classes.join(" ") }
MergeClasses(obj, classes) ==
    IF Len(classes) > 0
    THEN LET moved == IF HasKey(obj, "class")
                      THEN Delete(Put(obj, "className", Get(obj, "class")), "class")
                      ELSE obj
         IN  Put(moved, "className", Str(join(classes, <<" ">>)))
    ELSE obj

RECURSIVE Concat(_, _)
\* [].concat(...args): an argument that is an array gives its elements
Concat(hp, args) ==
    IF args = <<>> THEN <<>>
    ELSE LET a == Head(args)
         IN  (IF a.t = "object" /\ hp[a.r].array THEN hp[a.r].elems ELSE <<a>>)
             \o Concat(hp, Tail(args))

\* v => v != null
NotNullish(v) == v.t \notin {"null", "undefined"}

\* Children that drops every falsy value
ChildrenDropsFalsy(hp, args) == SelectSeq(Concat(hp, args), Truthy)

\* [].concat(...args).filter(v => v != null)
Children(hp, args) == SelectSeq(Concat(hp, args), NotNullish)

\* the rest of createVNode, once the loop over the parts has left id, classes,
\* tagName and the properties object (at p) as acc holds them
Finish(hp, p, acc, args) ==
    LET o1 == DefaultId(acc.obj, acc.id)
        o2 == MergeClasses(o1, PushClassName(o1, acc.classes))
    IN  The({The({The({[heap |-> n.heap, ret |-> n.ref] :
                         n \in {Alloc(c.heap,
                                      Cell(FALSE, <<[k |-> "tagName",
                                                     v |-> Str(CaseOf(o1, acc.tagName))],
                                                    [k |-> "properties", v |-> p],
                                                    [k |-> "children", v |-> c.ref]>>,
                                           <<>>))}}) :
                    c \in {Alloc(h1, ArrayOf(Children(h1, args)))}}) :
               h1 \in {[hp EXCEPT ![p.r] = o2]}})

\* a default tag name that is empty
DefaultTagNameEmpty == <<>>

\* let tagName = "div"
DefaultTagName == <<"d","i","v">>

createVNode(hp, selector, properties, args) ==
    LET m == matchSelector(selector)
        p == IF Truthy(properties) THEN [heap |-> hp, ref |-> properties]
             ELSE Alloc(hp, EmptyObject)
    IN  IF m.null THEN [heap |-> p.heap, ret |-> TypeError]
        \* a truthy primitive as properties: the in operator (or, for an svg
        \* selector, the strict-mode assignment) raises before anything is written
        ELSE IF p.ref.t # "object" THEN [heap |-> p.heap, ret |-> TypeError]
        ELSE The({Finish(p.heap, p.ref, acc, args) :
                    acc \in {PartLoop([id |-> <<>>, classes |-> <<>>,
                                       tagName |-> DefaultTagName,
                                       obj |-> p.heap[p.ref.r]], m.parts)}})

\* selector + first
Plus(selector, first) == Str(ToStr(selector) \o ToStr(first))

\* ".#".includes(first[0])
IsClassOrId(first) == first.s # <<>> /\ first.s[1] \in {".", "#"}

\* createVNode(selector, {}, ...children)
WithFreshProps(hp, selector, children) ==
    LET o == Alloc(hp, EmptyObject) IN createVNode(o.heap, selector, o.ref, children)

\* createVNode(selector, ...rest), for the selector extended by a fragment
Forward(hp, selector, rest) ==
    createVNode(hp, selector, IF rest = <<>> THEN Undefined ELSE Head(rest),
                IF rest = <<>> THEN <<>> ELSE Tail(rest))

\* the branch of h for typeof first === "string"
hString(hp, selector, first, rest) ==
    IF rest # <<>> /\ Truthy(rest[1]) /\ rest[1].t # "object"
    THEN [heap |-> hp, ret |-> TypeError]     \* isVNode applies in to a primitive
    ELSE IF rest # <<>> /\ Truthy(rest[1]) /\ isVNode(hp, rest[1])
    THEN IF IsClassOrId(first) THEN WithFreshProps(hp, Plus(selector, first), rest)
         ELSE WithFreshProps(hp, selector, <<first>> \o rest)
    ELSE IF IsClassOrId(first) THEN Forward(hp, Plus(selector, first), rest)
    ELSE WithFreshProps(hp, selector, <<first>> \o rest)

\* hObject without its Array.isArray branch: an array first taken as the properties
hObjectArrayAsProps(hp, selector, first, rest) ==
    IF first.t = "null" THEN WithFreshProps(hp, selector, rest)
    ELSE IF first.t = "object" /\ isVNode(hp, first)
         THEN WithFreshProps(hp, selector, <<first>> \o rest)
    ELSE createVNode(hp, selector, first, rest)

\* the branch of h for typeof first === "object", and the call that ends h
hObject(hp, selector, first, rest) ==
    IF first.t = "null" THEN WithFreshProps(hp, selector, rest)
    ELSE IF first.t = "object" /\ isVNode(hp, first)
         THEN WithFreshProps(hp, selector, <<first>> \o rest)
    ELSE IF first.t = "object" /\ hp[first.r].array
         THEN WithFreshProps(hp, selector, hp[first.r].elems \o rest)
    ELSE createVNode(hp, selector, first, rest)

h(hp, selector, first, rest) ==
    IF first.t = "string" THEN hString(hp, selector, first, rest)
    ELSE hObject(hp, selector, first, rest)

-----------------------------------------------------------------------------
(* The DOM tag factories.                                                  *)

SVG_TAG_NAMES ==
    <<<<"a","l","t","G","l","y","p","h">>, <<"a","l","t","G","l","y","p","h","D","e","f">>,
      <<"a","l","t","G","l","y","p","h","I","t","e","m">>, <<"a","n","i","m","a","t","e">>,
      <<"a","n","i","m","a","t","e","C","o","l","o","r">>,
      <<"a","n","i","m","a","t","e","M","o","t","i","o","n">>,
      <<"a","n","i","m","a","t","e","T","r","a","n","s","f","o","r","m">>,
      <<"c","i","r","c","l","e">>, <<"c","l","i","p","P","a","t","h">>,
      <<"c","o","l","o","r","P","r","o","f","i","l","e">>, <<"c","u","r","s","o","r">>,
      <<"d","e","f","s">>, <<"d","e","s","c">>, <<"e","l","l","i","p","s","e">>,
      <<"f","e","B","l","e","n","d">>,
      <<"f","e","C","o","l","o","r","M","a","t","r","i","x">>,
      <<"f","e","C","o","m","p","o","n","e","n","t","T","r","a","n","s","f","e","r">>,
      <<"f","e","C","o","m","p","o","s","i","t","e">>,
      <<"f","e","C","o","n","v","o","l","v","e","M","a","t","r","i","x">>,
      <<"f","e","D","i","f","f","u","s","e","L","i","g","h","t","i","n","g">>,
      <<"f","e","D","i","s","p","l","a","c","e","m","e","n","t","M","a","p">>,
      <<"f","e","D","i","s","t","a","n","t","L","i","g","h","t">>,
      <<"f","e","F","l","o","o","d">>, <<"f","e","F","u","n","c","A">>,
      <<"f","e","F","u","n","c","B">>, <<"f","e","F","u","n","c","G">>,
      <<"f","e","F","u","n","c","R">>,
      <<"f","e","G","a","u","s","s","i","a","n","B","l","u","r">>,
      <<"f","e","I","m","a","g","e">>, <<"f","e","M","e","r","g","e">>,
      <<"f","e","M","e","r","g","e","N","o","d","e">>,
      <<"f","e","M","o","r","p","h","o","l","o","g","y">>,
      <<"f","e","O","f","f","s","e","t">>,
      <<"f","e","P","o","i","n","t","L","i","g","h","t">>,
      <<"f","e","S","p","e","c","u","l","a","r","L","i","g","h","t","i","n","g">>,
      <<"f","e","S","p","o","t","l","i","g","h","t">>, <<"f","e","T","i","l","e">>,
      <<"f","e","T","u","r","b","u","l","e","n","c","e">>, <<"f","i","l","t","e","r">>,
      <<"f","o","n","t">>, <<"f","o","n","t","F","a","c","e">>,
      <<"f","o","n","t","F","a","c","e","F","o","r","m","a","t">>,
      <<"f","o","n","t","F","a","c","e","N","a","m","e">>,
      <<"f","o","n","t","F","a","c","e","S","r","c">>,
      <<"f","o","n","t","F","a","c","e","U","r","i">>,
      <<"f","o","r","e","i","g","n","O","b","j","e","c","t">>, <<"g">>,
      <<"g","l","y","p","h">>, <<"g","l","y","p","h","R","e","f">>,
      <<"h","k","e","r","n">>, <<"i","m","a","g","e">>, <<"l","i","n","e">>,
      <<"l","i","n","e","a","r","G","r","a","d","i","e","n","t">>,
      <<"m","a","r","k","e","r">>, <<"m","a","s","k">>,
      <<"m","e","t","a","d","a","t","a">>,
      <<"m","i","s","s","i","n","g","G","l","y","p","h">>, <<"m","p","a","t","h">>,
      <<"p","a","t","h">>, <<"p","a","t","t","e","r","n">>,
      <<"p","o","l","y","g","o","n">>, <<"p","o","l","y","l","i","n","e">>,
      <<"r","a","d","i","a","l","G","r","a","d","i","e","n","t">>, <<"r","e","c","t">>,
      <<"s","c","r","i","p","t">>, <<"s","e","t">>, <<"s","t","o","p">>,
      <<"s","t","y","l","e">>, <<"s","w","i","t","c","h">>, <<"s","y","m","b","o","l">>,
      <<"t","e","x","t">>, <<"t","e","x","t","P","a","t","h">>, <<"t","i","t","l","e">>,
      <<"t","r","e","f">>, <<"t","s","p","a","n">>, <<"u","s","e">>, <<"v","i","e","w">>,
      <<"v","k","e","r","n">>>>

HTML_TAG_NAMES ==
    <<<<"a">>, <<"a","b","b","r">>, <<"a","c","r","o","n","y","m">>,
      <<"a","d","d","r","e","s","s">>, <<"a","p","p","l","e","t">>, <<"a","r","e","a">>,
      <<"a","r","t","i","c","l","e">>, <<"a","s","i","d","e">>, <<"a","u","d","i","o">>,
      <<"b">>, <<"b","a","s","e">>, <<"b","a","s","e","f","o","n","t">>, <<"b","d","i">>,
      <<"b","d","o">>, <<"b","g","s","o","u","n","d">>, <<"b","i","g">>,
      <<"b","l","i","n","k">>, <<"b","l","o","c","k","q","u","o","t","e">>,
      <<"b","o","d","y">>, <<"b","r">>, <<"b","u","t","t","o","n">>,
      <<"c","a","n","v","a","s">>, <<"c","a","p","t","i","o","n">>,
      <<"c","e","n","t","e","r">>, <<"c","i","t","e">>, <<"c","o","d","e">>,
      <<"c","o","l">>, <<"c","o","l","g","r","o","u","p">>,
      <<"c","o","m","m","a","n","d">>, <<"c","o","n","t","e","n","t">>,
      <<"d","a","t","a">>, <<"d","a","t","a","l","i","s","t">>, <<"d","d">>,
      <<"d","e","l">>, <<"d","e","t","a","i","l","s">>, <<"d","f","n">>,
      <<"d","i","a","l","o","g">>, <<"d","i","r">>, <<"d","i","v">>, <<"d","l">>,
      <<"d","t">>, <<"e","l","e","m","e","n","t">>, <<"e","m">>, <<"e","m","b","e","d">>,
      <<"f","i","e","l","d","s","e","t">>, <<"f","i","g","c","a","p","t","i","o","n">>,
      <<"f","i","g","u","r","e">>, <<"f","o","n","t">>, <<"f","o","o","t","e","r">>,
      <<"f","o","r","m">>, <<"f","r","a","m","e">>, <<"f","r","a","m","e","s","e","t">>,
      <<"h","1">>, <<"h","2">>, <<"h","3">>, <<"h","4">>, <<"h","5">>, <<"h","6">>,
      <<"h","e","a","d">>, <<"h","e","a","d","e","r">>, <<"h","g","r","o","u","p">>,
      <<"h","r">>, <<"h","t","m","l">>, <<"i">>, <<"i","f","r","a","m","e">>,
      <<"i","m","a","g","e">>, <<"i","m","g">>, <<"i","n","p","u","t">>, <<"i","n","s">>,
      <<"i","s","i","n","d","e","x">>, <<"k","b","d">>, <<"k","e","y","g","e","n">>,
      <<"l","a","b","e","l">>, <<"l","e","g","e","n","d">>, <<"l","i">>,
      <<"l","i","n","k">>, <<"l","i","s","t","i","n","g">>, <<"m","a","i","n">>,
      <<"m","a","p">>, <<"m","a","r","k">>, <<"m","a","r","q","u","e","e">>,
      <<"m","a","t","h">>, <<"m","e","n","u">>, <<"m","e","n","u","i","t","e","m">>,
      <<"m","e","t","a">>, <<"m","e","t","e","r">>, <<"m","u","l","t","i","c","o","l">>,
      <<"n","a","v">>, <<"n","e","x","t","i","d">>, <<"n","o","b","r">>,
      <<"n","o","e","m","b","e","d">>, <<"n","o","f","r","a","m","e","s">>,
      <<"n","o","s","c","r","i","p","t">>, <<"o","b","j","e","c","t">>, <<"o","l">>,
      <<"o","p","t","g","r","o","u","p">>, <<"o","p","t","i","o","n">>,
      <<"o","u","t","p","u","t">>, <<"p">>, <<"p","a","r","a","m">>,
      <<"p","i","c","t","u","r","e">>, <<"p","l","a","i","n","t","e","x","t">>,
      <<"p","r","e">>, <<"p","r","o","g","r","e","s","s">>, <<"q">>, <<"r","b">>,
      <<"r","b","c">>, <<"r","p">>, <<"r","t">>, <<"r","t","c">>, <<"r","u","b","y">>,
      <<"s">>, <<"s","a","m","p">>, <<"s","c","r","i","p","t">>,
      <<"s","e","c","t","i","o","n">>, <<"s","e","l","e","c","t">>,
      <<"s","h","a","d","o","w">>, <<"s","l","o","t">>, <<"s","m","a","l","l">>,
      <<"s","o","u","r","c","e">>, <<"s","p","a","c","e","r">>, <<"s","p","a","n">>,
      <<"s","t","r","i","k","e">>, <<"s","t","r","o","n","g">>, <<"s","t","y","l","e">>,
      <<"s","u","b">>, <<"s","u","m","m","a","r","y">>, <<"s","u","p">>, <<"s","v","g">>,
      <<"t","a","b","l","e">>, <<"t","b","o","d","y">>, <<"t","d">>,
      <<"t","e","m","p","l","a","t","e">>, <<"t","e","x","t","a","r","e","a">>,
      <<"t","f","o","o","t">>, <<"t","h">>, <<"t","h","e","a","d">>, <<"t","i","m","e">>,
      <<"t","i","t","l","e">>, <<"t","r">>, <<"t","r","a","c","k">>, <<"t","t">>, <<"u">>,
      <<"u","l">>, <<"v","a","r">>, <<"v","i","d","e","o">>, <<"w","b","r">>,
      <<"x","m","p">>>>

\* HTML_TAG_NAMES.forEach(tagName => { DOM[tagName] = (first, ...rest) =>
\* h(tagName, first, ...rest) }), then the same over SVG_TAG_NAMES with
\* h("svg:" + tagName, first, ...rest): the assignments to DOM in the order made,
\* each with the selector its factory passes to h
Registrations ==
    [i \in 1..Len(HTML_TAG_NAMES) |->
        [name |-> HTML_TAG_NAMES[i], svg |-> FALSE, selector |-> HTML_TAG_NAMES[i]]]
    \o [i \in 1..Len(SVG_TAG_NAMES) |->
          [name |-> SVG_TAG_NAMES[i], svg |-> TRUE,
           selector |-> <<"s","v","g",":">> \o SVG_TAG_NAMES[i]]]

\* DOM after the assignments: a name assigned twice keeps the later factory
DOM ==
    [n \in {Registrations[i].name : i \in DOMAIN Registrations} |->
        LET at == {i \in DOMAIN Registrations : Registrations[i].name = n}
        IN  Registrations[CHOOSE i \in at : \A k \in at : k <= i]]

-----------------------------------------------------------------------------
(* The Renderer: formatters and render, against a document that records    *)
(* the nodes it is asked to create.                                        *)

\* a function value, known by its name
Fn(name) == [t |-> "function", f |-> name]

\* the characters of a property name
Chars(k) ==
    CASE k = "color" -> <<"c","o","l","o","r">>
      [] k = "width" -> <<"w","i","d","t","h">>
      [] k = "id" -> <<"i","d">>
      [] k = "className" -> <<"c","l","a","s","s","N","a","m","e">>
      [] k = "class" -> <<"c","l","a","s","s">>
      [] k = "style" -> <<"s","t","y","l","e">>
      [] k = "xmlns" -> <<"x","m","l","n","s">>
      [] k = "foo" -> <<"f","o","o">>
      [] k \in Range(Digits) -> <<k>>

RECURSIVE StringOf(_, _)
\* String(v): an array is its elements joined by ",", null and undefined among
\* them giving nothing; any other object is "[object Object]"
StringOf(hp, v) ==
    IF v.t # "object" THEN ToStr(v)
    ELSE IF hp[v.r].array
         THEN join([i \in DOMAIN hp[v.r].elems |->
                      IF hp[v.r].elems[i].t \in {"null", "undefined"} THEN <<>>
                      ELSE StringOf(hp, hp[v.r].elems[i])], <<",">>)
    ELSE <<"[","o","b","j","e","c","t"," ","O","b","j","e","c","t","]">>

\* the own enumerable entries of a value, as Object.keys lists them: the
\* indices of an array or a string, then the keys in insertion order
Entries(hp, v) ==
    CASE v.t = "object" ->
           (IF hp[v.r].array
            THEN [i \in DOMAIN hp[v.r].elems |-> [k |-> Digits[i], v |-> hp[v.r].elems[i]]]
            ELSE <<>>) \o hp[v.r].props
      [] v.t = "string" -> [i \in DOMAIN v.s |-> [k |-> Digits[i], v |-> Str(<<v.s[i]>>)]]
      [] OTHER -> <<>>

\* Object.keys(value).reduce((r, k) => { r.push(k + ":" + value[k]); return r }, [])
\*   .join(";") for an object, the value itself otherwise
defaultStyleFormatter(hp, value) ==
    IF value.t = "object"
    THEN LET es == Entries(hp, value)
         IN  Str(join([i \in DOMAIN es |->
                         Chars(es[i].k) \o <<":">> \o StringOf(hp, es[i].v)], <<";">>))
    ELSE value

\* the prefix of the highlighter that owns the renderer
Prefix == <<"p","-">>

\* value => prefix + value
prefixFormatter(hp, value) == Str(Prefix \o StringOf(hp, value))

\* formatter(v)
Apply(fn, hp, v) ==
    CASE fn.f = "defaultStyleFormatter" -> defaultStyleFormatter(hp, v)
      [] fn.f = "prefixFormatter" -> prefixFormatter(hp, v)
      \* Object.prototype.toString called without a receiver
      [] fn.f = "Object.prototype.toString" ->
           Str(<<"[","o","b","j","e","c","t"," ","U","n","d","e","f","i","n","e","d","]">>)

\* constructor: this[_formatters] = {}; this.setFormatterFor("style", defaultStyleFormatter)
NewFormatters == Put(EmptyObject, "style", Fn("defaultStyleFormatter"))

\* setFormatterFor(name, formatter): this[_formatters][name] = formatter
setFormatterFor(formatters, name, formatter) == Put(formatters, name, formatter)

\* this[_formatters][k]: an own entry, or what the plain object inherits under
\* that name
Lookup(formatters, k) ==
    IF HasKey(formatters, k) THEN Get(formatters, k)
    ELSE IF k = "toString" THEN Fn("Object.prototype.toString")
    ELSE Undefined

\* the nodes the document hands out
TextNode(data) == [kind |-> "text", data |-> data]
Element(how, ns, name) ==
    [kind |-> "element", how |-> how, ns |-> ns, name |-> name, attrs |-> <<>>, kids |-> <<>>]
NodeRef(n) == [t |-> "node", n |-> n]

\* v.k for a value v: a TypeError on undefined and null, nothing on a primitive
Member(hp, v, k) ==
    IF v.t \in {"undefined", "null"} THEN TypeError
    ELSE IF v.t = "object" THEN Get(hp[v.r], k)
    ELSE Undefined

\* what the forEach over Object.keys(a) does to the new element: for every
\* key but xmlns, in order, one setAttribute(k, v), v through its formatter
SetAttributes(formatters, hp, a, element) ==
    LET es == SelectSeq(Entries(hp, a), LAMBDA e : e.k # "xmlns")
    IN  [element EXCEPT !.attrs =
            [i \in DOMAIN es |->
                [k |-> es[i].k,
                 v |-> IF Truthy(Lookup(formatters, es[i].k))
                       THEN Apply(Lookup(formatters, es[i].k), hp, es[i].v)
                       ELSE es[i].v]]]

RECURSIVE render(_, _, _, _)
RECURSIVE AppendChildren(_, _, _, _, _)

\* children.forEach(c => n.appendChild(this.render(c))) for the children cs left
AppendChildren(formatters, hp, doc, n, cs) ==
    IF cs = <<>> THEN [document |-> doc, ret |-> NodeRef(n)]
    ELSE The({IF r.ret = TypeError THEN r
              ELSE AppendChildren(formatters, hp,
                                  [r.document EXCEPT ![n].kids = Append(@, r.ret.n)],
                                  n, Tail(cs)) :
                r \in {render(formatters, hp, doc, Head(cs))}})

\* render(vtree) with the formatters of this renderer, on the document doc
render(formatters, hp, doc, vtree) ==
    IF vtree.t = "string"
    THEN [document |-> Append(doc, TextNode(vtree)), ret |-> NodeRef(Len(doc) + 1)]
    ELSE LET nodeName == Member(hp, vtree, "nodeName")
             \* vtree.attributes.xmlns
             xmlns == Member(hp, Member(hp, vtree, "attributes"), "xmlns")
             a == Member(hp, vtree, "properties")
             children == Member(hp, vtree, "children")
             n == Len(doc) + 1
         IN  IF nodeName = TypeError \/ xmlns = TypeError
             THEN [document |-> doc, ret |-> TypeError]
             \* vtree.properties.xmlns
             ELSE IF Truthy(xmlns) /\ Member(hp, a, "xmlns") = TypeError
             THEN [document |-> doc, ret |-> TypeError]
             ELSE LET element == IF Truthy(xmlns)
                                 THEN Element("createElementNS", Member(hp, a, "xmlns"),
                                              nodeName)
                                 ELSE Element("createElement", Undefined, nodeName)
                  IN  \* Object.keys(a)
                      IF a.t \in {"undefined", "null"}
                      THEN [document |-> Append(doc, element), ret |-> TypeError]
                      ELSE The({IF ~Truthy(children)
                                THEN [document |-> d, ret |-> NodeRef(n)]
                                \* forEach is a method of arrays only
                                ELSE IF ~(children.t = "object" /\ hp[children.r].array)
                                THEN [document |-> d, ret |-> TypeError]
                                ELSE AppendChildren(formatters, hp, d, n,
                                                    hp[children.r].elems) :
                                  d \in {Append(doc, SetAttributes(formatters, hp, a,
                                                                   element))}})

-----------------------------------------------------------------------------
(* The event emitter of devtools/shared/event-emitter.js, on one target.   *)
(* target[eventListeners] is a Map from a type to the Set of its           *)
(* listeners; both keep insertion order, so both are sequences here.  A    *)
(* call runs to its end before the next begins; what interleaves with an   *)
(* emit is what the listeners it invokes do.  The state of a call in       *)
(* progress is a record of the listener map, the listeners that have run   *)
(* their one-time part, the history, the number of emits begun and the     *)
(* emits in progress.                                                      *)

\* events.has(type)
MapHas(map, type) == \E i \in DOMAIN map : map[i].type = type

\* events.get(type), the Set as a sequence; only asked when events.has(type)
MapGet(map, type) == map[CHOOSE i \in DOMAIN map : map[i].type = type].set

\* events.set(type, set): a new key goes last
MapSet(map, type, set) ==
    IF MapHas(map, type)
    THEN [i \in DOMAIN map |-> IF map[i].type = type THEN [type |-> type, set |-> set]
                               ELSE map[i]]
    ELSE Append(map, [type |-> type, set |-> set])

\* the mutant of MapDelete: every key is deleted
MapDeleteAll(map, type) == <<>>

\* events.delete(type)
MapDelete(map, type) == SelectSeq(map, LAMBDA e : e.type # type)

\* the mutant of SetAdd: a member is added once more
SetAddAgain(set, listener) == Append(set, listener)

\* set.add(listener): a member keeps its place
SetAdd(set, listener) == IF listener \in Range(set) THEN set ELSE Append(set, listener)

\* set.delete(listener)
SetDelete(set, listener) == SelectSeq(set, LAMBDA l : l # listener)

\* a target before it has listeners
NoListeners == [has |-> FALSE, map |-> <<>>]

\* an object with a [handler] method; name tells what the method does
HandlerObject(name) == [t |-> "handler", f |-> name]

\* {when: fn}, the predicate object of once
Predicate(name) == [t |-> "predicate", when |-> Fn(name)]

\* the function newListener of the n-th call of once, with what it closes over
NewListener(n, type, listener) ==
    [t |-> "function", f |-> "newListener", promise |-> n, type |-> type,
     original |-> listener]

\* listener && typeof listener === "object" && typeof listener.when === "function"
isPredicate(listener) == listener.t = "predicate"

\* listener && handler in listener && typeof listener[handler] === "function"
isEventHandler(listener) == listener.t = "handler"

\* typeof listener !== "function" && !isEventHandler(listener)
BadListener(listener) == listener.t # "function" /\ ~isEventHandler(listener)

\* the target, as the this of a call
Target == [t |-> "target"]

\* the type of an emit, as an argument of a call
TypeName(type) == [t |-> "type", s |-> type]

\* a type argument that is undefined
UndefinedType == "(undefined)"

\* the ids of the emits in progress
InProgress(st) == {st.stack[i].id : i \in DOMAIN st.stack}

\* EventEmitter.on(target, type, listener)
on(st, type, listener) ==
    IF BadListener(listener)
    THEN [st EXCEPT !.log = Append(@, [e |-> "throw", by |-> "on"]), !.threw = TRUE,
                    !.ex = "Error"]
    ELSE LET map == st.events.map
             set == IF MapHas(map, type) THEN SetAdd(MapGet(map, type), listener)
                    ELSE <<listener>>
         IN  [st EXCEPT !.events = [has |-> TRUE, map |-> MapSet(map, type, set)],
                        !.log = Append(@, [e |-> "on", type |-> type, l |-> listener,
                                           added |-> ~(/\ MapHas(map, type)
                                                       /\ listener \in Range(MapGet(map, type))),
                                           during |-> InProgress(st)])]

\* the registrations of the target: pairs of a type and a listener
Registered(ev) ==
    UNION {{<<ev.map[i].type, l>> : l \in Range(ev.map[i].set)} : i \in DOMAIN ev.map}

\* what a call of off took away: pairs of a type and a listener
Removed(before, after) == Registered(before) \ Registered(after)

\* the end of every call of off: the history gets the arguments given after
\* the target and what was removed
Off(st, ev, call) ==
    [st EXCEPT !.events = ev,
               !.log = Append(@, [e |-> "off", call |-> call,
                                  removed |-> Removed(st.events, ev),
                                  during |-> InProgress(st)])]

\* originalListener in value && (value[originalListener] === listener ||
\* value[originalListener].when === listener): "yes", "no", or "TypeError" when
\* value[originalListener] is undefined and listener is not
WrapperOf(value, listener) ==
    IF "original" \notin DOMAIN value THEN "no"
    ELSE IF value.original = listener THEN "yes"
    ELSE IF value.original.t \in {"undefined", "null"} THEN "TypeError"
    ELSE IF (IF isPredicate(value.original) THEN value.original.when ELSE Undefined)
            = listener
    THEN "yes"
    ELSE "no"

\* for (let value of listenersForType.values()): the first value that ends the loop
RECURSIVE ScanWrappers(_, _)
ScanWrappers(set, listener) ==
    IF set = <<>> THEN [how |-> "no", value |-> Undefined]
    ELSE IF WrapperOf(Head(set), listener) = "no" THEN ScanWrappers(Tail(set), listener)
    ELSE [how |-> WrapperOf(Head(set), listener), value |-> Head(set)]

\* EventEmitter.off(target, type, listener), three arguments given
off3(st, type, listener) ==
    LET map == st.events.map
        call == <<TypeName(type), listener>>
    IN  IF ~st.events.has \/ ~MapHas(map, type) THEN Off(st, st.events, call)
        ELSE LET set == MapGet(map, type)
                 scan == ScanWrappers(set, listener)
             IN  IF listener \in Range(set)
                 THEN Off(st, [st.events EXCEPT
                                  !.map = MapSet(map, type, SetDelete(set, listener))], call)
                 \* the first listener of once that wraps it
                 ELSE IF scan.how = "yes"
                 THEN Off(st, [st.events EXCEPT
                                  !.map = MapSet(map, type, SetDelete(set, scan.value))], call)
                 ELSE IF scan.how = "TypeError"
                 THEN [Off(st, st.events, call) EXCEPT !.threw = TRUE, !.ex = "TypeError"]
                 ELSE Off(st, st.events, call)

\* EventEmitter.off(target, type), two arguments given
off2(st, type) ==
    IF ~st.events.has THEN Off(st, st.events, <<TypeName(type)>>)
    ELSE Off(st, [st.events EXCEPT !.map = MapDelete(@, type)], <<TypeName(type)>>)

\* the mutant of off1: nothing is cleared
off1Nothing(st) == Off(st, st.events, <<>>)

\* EventEmitter.off(target), one argument given: every Set is cleared, and
\* events.delete(type), type being undefined, deletes no key
off1(st) ==
    IF ~st.events.has THEN Off(st, st.events, <<>>)
    ELSE Off(st, [st.events EXCEPT
                     !.map = [i \in DOMAIN @ |-> [type |-> @[i].type, set |-> <<>>]]], <<>>)

\* EventEmitter.count(target, type)
count(ev, type) ==
    IF ev.has /\ MapHas(ev.map, type) THEN Len(MapGet(ev.map, type)) ELSE 0

\* the promises the calls of once have made
Promises(st) == {i \in DOMAIN st.log : st.log[i].e = "once"}

\* EventEmitter.once(target, type, listener): the executor of the promise runs at
\* once, and registers newListener
once(st, type, listener) ==
    LET n == Cardinality(Promises(st)) + 1
    IN  on([st EXCEPT !.log = Append(@, [e |-> "once", promise |-> n, type |-> type,
                                         l |-> listener])],
           type, NewListener(n, type, listener))

\* what the listeners of the callers do when they are invoked: nothing, or
\* calls of the emitter on their target
Script(listener) ==
    CASE listener.f = "plain" -> <<>>
      [] listener.f = "other" -> <<>>
      [] listener.f = "whenB" -> <<>>
      [] listener.f = "adder" -> <<[op |-> "on", type |-> "message", l |-> Fn("plain")]>>
      [] listener.f = "remover" -> <<[op |-> "off3", type |-> "message", l |-> Fn("plain")]>>
      [] listener.f = "readder" -> <<[op |-> "off3", type |-> "message", l |-> Fn("plain")],
                                     [op |-> "on", type |-> "message", l |-> Fn("plain")]>>
      [] listener.f = "thrower" -> <<[op |-> "throw", ex |-> "Error"]>>
      [] listener.f = "nullThrower" -> <<[op |-> "throw", ex |-> "null"]>>
      \* emits on its first invocation only
      [] listener.f = "reemitter" -> <<[op |-> "emitOnce", type |-> "message"]>>
      [] listener.f = "typeClearer" -> <<[op |-> "off2", type |-> "message"]>>
      [] listener.f = "allClearer" -> <<[op |-> "off1"]>>
      [] listener.f = "resetter" -> <<[op |-> "off1"],
                                      [op |-> "on", type |-> "message", l |-> Fn("plain")]>>

\* what a listener of the callers returns: whenB tells whether its first
\* argument is "b", the others return nothing
Returns(listener, args) ==
    IF listener.f = "whenB" THEN Bool(args # <<>> /\ args[1] = Str(<<"b">>))
    ELSE Undefined

\* the mutant of Iterated: the loop of emit runs over the Set of the target itself
IteratedLive(snapshot, ev, type) ==
    IF MapHas(ev.map, type) THEN MapGet(ev.map, type) ELSE <<>>

\* for (let listener of listenersForType): the listeners the loop runs over are
\* those of the temporary Set, whatever became of the Set of the target
Iterated(snapshot, ev, type) == snapshot

\* the mutant of Resolved: newListener removes itself whatever the predicate said
ResolvedAlways(listener, args) == TRUE

\* let resolved = true; resolved = listener.when.call(target, first, ...rest)
Resolved(listener, args) ==
    IF isPredicate(listener) THEN Truthy(Returns(listener.when, args)) ELSE TRUE

\* the mutant of StillRegistered: emit calls every listener of the temporary Set
StillRegisteredAlways(ev, type, listener) == TRUE

\* target[eventListeners].get(type) && target[eventListeners].get(type).has(listener)
StillRegistered(ev, type, listener) ==
    MapHas(ev.map, type) /\ listener \in Range(MapGet(ev.map, type))

\* the mutant of HandlerArgs: the method gets the arguments of the emit only
HandlerArgsNoType(type, rest) == rest

\* listener[handler].call(listener, type, ...rest): the arguments of the method
HandlerArgs(type, rest) == <<TypeName(type)>> \o rest

RECURSIVE emit(_, _, _)
RECURSIVE EmitLoop(_, _, _, _, _, _)
RECURSIVE RunScript(_, _, _)
RECURSIVE Call(_, _, _, _, _, _)
RECURSIVE newListener(_, _, _, _)

\* the body of listener, from its statement ops on; a statement that throws ends it
RunScript(st, listener, ops) ==
    IF ops = <<>> \/ st.threw THEN st
    ELSE LET o == Head(ops)
         IN  The({RunScript(s1, listener, Tail(ops)) :
                    s1 \in {CASE o.op = "on" -> on(st, o.type, o.l)
                              [] o.op = "off3" -> off3(st, o.type, o.l)
                              [] o.op = "off2" -> off2(st, o.type)
                              [] o.op = "off1" -> off1(st)
                              [] o.op = "throw" ->
                                   [st EXCEPT !.threw = TRUE, !.ex = o.ex,
                                              !.log = Append(@, [e |-> "throw",
                                                                 by |-> listener.f])]
                              [] o.op = "emitOnce" ->
                                   IF listener \in st.fired THEN st
                                   ELSE emit([st EXCEPT !.fired = @ \cup {listener}],
                                             o.type, <<>>)}})

\* a call of listener (of its [handler] method, for an object) with this and
\* args, made during emit number id by emit itself (by = 0) or by the newListener
\* of the promise number by
Call(st, id, listener, this, args, by) ==
    LET called == [st EXCEPT !.log = Append(@, [e |-> "call", l |-> listener, id |-> id,
                                                this |-> this, args |-> args,
                                                by |-> by])]
    IN  IF "original" \in DOMAIN listener
        THEN newListener(called, id, listener, args)
        ELSE RunScript(called, listener, Script(listener))

\* newListener(first, ...rest), the function once registers
newListener(st, id, self, args) ==
    LET listener == self.original
        first == IF args = <<>> THEN Undefined ELSE args[1]
        passed == IF args = <<>> THEN <<Undefined>> ELSE args
    IN  The({IF s1.threw \/ ~Resolved(listener, passed) THEN s1
             ELSE The({IF s2.threw THEN s2
                       ELSE [s2 EXCEPT !.log = Append(@, [e |-> "resolve",
                                                          promise |-> self.promise,
                                                          id |-> id,
                                                          value |-> first])] :
                         s2 \in {off3(s1, self.type, self)}}) :
               s1 \in {IF ~Truthy(listener) THEN st
                       ELSE IF isPredicate(listener)
                       THEN Call(st, id, listener.when, Target, passed, self.promise)
                       ELSE IF isEventHandler(listener)
                       THEN Call(st, id, listener, listener,
                                 HandlerArgs(self.type, passed), self.promise)
                       ELSE Call(st, id, listener, Target, passed, self.promise)}})

\* try { ... listener.call(target, ...rest) } catch (ex) { let msg = ex + ": " +
\* ex.stack; console.error(msg) }: reading ex.stack of null raises in the handler
Invoke(st, id, type, listener, rest) ==
    The({IF ~s1.threw THEN s1
         ELSE IF s1.ex = "null"
         THEN [s1 EXCEPT !.ex = "TypeError",
                         !.log = Append(@, [e |-> "uncaught", l |-> listener, id |-> id])]
         ELSE [s1 EXCEPT !.threw = FALSE, !.ex = "none",
                         !.log = Append(@, [e |-> "error", l |-> listener, id |-> id])] :
           s1 \in {IF isEventHandler(listener)
                   THEN Call(st, id, listener, listener, HandlerArgs(type, rest), 0)
                   ELSE Call(st, id, listener, Target, rest, 0)}})

\* the loop of emit number id, at the k-th listener
EmitLoop(st, id, type, snapshot, k, rest) ==
    LET listeners == Iterated(snapshot, st.events, type)
    IN  IF k > Len(listeners) \/ ~st.events.has \/ st.threw THEN st
        ELSE The({EmitLoop(s1, id, type, snapshot, k + 1, rest) :
                    s1 \in {IF StillRegistered(st.events, type, listeners[k])
                            THEN Invoke(st, id, type, listeners[k], rest)
                            ELSE st}})

\* EventEmitter.emit(target, type, ...rest); the history gets the begin of the
\* emit with the listeners of the temporary Set, and its end: a return, or the
\* exception it lets through
emit(st, type, rest) ==
    LET id == st.emits + 1
        snapshot == IF st.events.has /\ MapHas(st.events.map, type)
                    THEN MapGet(st.events.map, type) ELSE <<>>
        begun == [st EXCEPT !.emits = id,
                            !.stack = Append(@, [id |-> id, type |-> type]),
                            !.log = Append(@, [e |-> "emit", id |-> id, type |-> type,
                                               args |-> rest, snapshot |-> snapshot])]
    IN  The({[s1 EXCEPT !.stack = SubSeq(@, 1, Len(@) - 1),
                        !.log = Append(@, [e |-> IF s1.threw THEN "raise" ELSE "return",
                                           id |-> id])] :
               s1 \in {IF snapshot = <<>> THEN begun
                       ELSE EmitLoop(begun, id, type, snapshot, 1, rest)}})

-----------------------------------------------------------------------------
(* The inputs of the calls: selectors, and the expressions the caller      *)
(* writes as arguments.                                                    *)

RECURSIVE SeqsUpTo(_, _)
\* the sequences over S of length at most n
SeqsUpTo(S, n) ==
    IF n = 0 THEN {<<>>}
    ELSE LET shorter == SeqsUpTo(S, n - 1)
         IN  shorter \cup {Append(q, x) : q \in {r \in shorter : Len(r) = n - 1}, x \in S}

RECURSIVE Flat(_)
Flat(strs) == IF strs = <<>> THEN <<>> ELSE Head(strs) \o Flat(Tail(strs))

\* what the caller means by a selector: a tag name, perhaps behind the svg:
\* prefix, then #id and .class fragments; sel is the string written
Shape(svg, tag, frags) ==
    [ok |-> TRUE, svg |-> svg, tag |-> tag, frags |-> frags,
     sel |-> Str((IF svg THEN <<"s","v","g",":">> ELSE <<>>) \o tag \o Flat(frags))]

\* a selector outside that grammar, or left out
Odd(sel) == [ok |-> FALSE, svg |-> FALSE, tag |-> <<>>, frags |-> <<>>, sel |-> sel]

SelTags == {<<>>, <<"A","b">>, <<"s","v","g">>}
SelFrags == {<<"#","x">>, <<"#","y">>, <<".","c">>, <<".","d">>}

\* selectors in which no token matches, selectors with characters outside the
\* pattern, and the selector left out
OddSelectors == {Odd(Undefined), Odd(Str(<<".">>)), Odd(Str(<<"#">>)), Odd(Str(<<"@">>)),
                 Odd(Str(<<"s","v","g",":">>)), Odd(Str(<<"A","b","@",".","c"," ","d">>))}

\* a tag followed by up to MaxFrags #id and .class fragments
Selectors ==
    {Shape(FALSE, tag, fr) : tag \in SelTags, fr \in SeqsUpTo(SelFrags, MaxFrags)}
    \cup {Shape(TRUE, <<"A","b">>, fr) : fr \in SeqsUpTo(SelFrags, MaxFrags)}
    \cup OddSelectors

\* the selectors tried with every shape of argument list
CommonSelectors == {Odd(Undefined), Odd(Str(<<".">>)), Shape(FALSE, <<>>, <<>>),
                    Shape(FALSE, <<"A","b">>, <<>>), Shape(TRUE, <<"A","b">>, <<>>),
                    Shape(FALSE, <<"A","b">>, <<<<"#","x">>, <<".","c">>>>)}

\* an object literal of the caller: its keys and values, in the order written
Lit(props) == [t |-> "literal", props |-> props]
\* an array literal
Arr(elems) == [t |-> "array", elems |-> elems]

KV(k, s) == [k |-> k, v |-> Str(s)]

PropsLiterals ==
    {Lit(<<>>),
     Lit(<<KV("foo", <<"b","a","r">>)>>),
     Lit(<<KV("id", <<"b","a","r">>)>>),
     Lit(<<KV("className", <<"b","a","z">>)>>),
     Lit(<<KV("class", <<"k">>)>>),
     Lit(<<KV("class", <<"k">>), KV("className", <<"b","a","z">>)>>),
     Lit(<<KV("xmlns", <<>>)>>),
     Lit(<<KV("xmlns", <<"n","s">>), KV("id", <<"b","a","r">>)>>)}

TextValues == {Str(<<>>), Str(<<"t">>), Str(<<".","e">>), Str(<<"#","z">>)}

\* the VNodes built so far: what the caller can pass as a child
VNodesOf(hp) ==
    {Ref(r) : r \in {i \in DOMAIN hp : HasKey(hp[i], "tagName") /\ HasKey(hp[i], "properties")}}

FirstExprs(hp) ==
    {Undefined, Null} \cup TextValues \cup VNodesOf(hp)
    \cup {Lit(<<>>), Lit(<<KV("className", <<"b","a","z">>)>>),
          Lit(<<KV("xmlns", <<"n","s">>), KV("id", <<"b","a","r">>)>>)}
    \cup {Arr(<<>>), Arr(<<Null, Str(<<".","e">>), Undefined, Str(<<"t">>)>>)}
    \cup {Arr(<<v, Str(<<"t">>)>>) : v \in VNodesOf(hp)}
    \cup {Arr(<<Arr(<<Str(<<"w">>)>>), Num(0)>>), Arr(<<Str(<<"t">>), Str(<<"u">>)>>)}
    \cup {Arr(<<Str(<<".","e">>), v>>) : v \in VNodesOf(hp)}

RestExprs(hp) ==
    {Null, Str(<<>>), Str(<<"t">>), Lit(<<KV("className", <<"b","a","z">>)>>),
     Num(0), Arr(<<Str(<<"u">>), Null, Bool(FALSE), Arr(<<Str(<<"w">>)>>)>>)}
    \cup VNodesOf(hp)

\* the calls of h the caller makes: every shape of argument list on the common
\* selectors, and every selector alone, with a fragment or with a properties literal
HInputs(hp) ==
    (CommonSelectors \X FirstExprs(hp) \X SeqsUpTo(RestExprs(hp), MaxRest))
    \cup (Selectors \X ({Undefined, Str(<<".","e">>), Str(<<"#","z">>)} \cup PropsLiterals)
                    \X {<<>>})

\* the calls of a tag factory
DOMInputs(hp) ==
    ({Undefined, Str(<<"t">>), Str(<<".","e">>), Lit(<<KV("className", <<"b","a","z">>)>>)}
       \X {<<>>})
    \cup (VNodesOf(hp) \X {<<>>})

RECURSIVE Eval(_, _)
\* the caller evaluates its argument expressions left to right: a literal
\* allocates a new object, an array literal after its elements
Eval(hp, exprs) ==
    IF exprs = <<>> THEN [heap |-> hp, vals |-> <<>>]
    ELSE LET e == Head(exprs)
             a == CASE e.t = "literal" ->
                         The({Alloc(in.heap,
                                    Cell(FALSE,
                                         [i \in DOMAIN e.props |->
                                             [k |-> e.props[i].k, v |-> in.vals[i]]],
                                         <<>>)) :
                                in \in {Eval(hp, [i \in DOMAIN e.props |-> e.props[i].v])}})
                    [] e.t = "array" ->
                         The({Alloc(in.heap, ArrayOf(in.vals)) : in \in {Eval(hp, e.elems)}})
                    [] OTHER -> [heap |-> hp, ref |-> e]
         IN  The({[heap |-> r.heap, vals |-> <<a.ref>> \o r.vals] :
                    r \in {Eval(a.heap, Tail(exprs))}})

-----------------------------------------------------------------------------
(* The state machine: a caller that builds child VNodes, makes one outer   *)
(* call, of h or of a tag factory, and repeats it with the very same       *)
(* arguments.                                                              *)

NoCall == [fn |-> "none", shape |-> Odd(Undefined), sel |-> Undefined, first |-> Undefined,
           rest |-> <<>>, pre |-> <<>>, ret |-> Undefined]

NoRender == [renderer |-> 0, vtree |-> Undefined, formatters |-> EmptyObject,
             pre |-> <<>>, ret |-> Undefined]

Init ==
    /\ heap = <<>>
    /\ last = NoCall
    /\ prev = NoCall
    /\ phase = "setup"
    /\ nchild = 0
    /\ nagain = 0
    /\ renderers = <<>>
    /\ document = <<>>
    /\ rendered = NoRender
    /\ nset = 0
    /\ nrender = 0
    /\ events = NoListeners
    /\ fired = {}
    /\ log = <<>>
    /\ emits = 0
    /\ ephase = "register"
    /\ non = 0
    /\ nrun = 0
    /\ noff = 0
    /\ isLoadingRecords = FALSE
    /\ newRequest = FALSE
    /\ calls = <<>>
    /\ loads = <<>>
    /\ storage = "pending"
    /\ elements = TRUE
    /\ observing = FALSE

\* the call h(shape.sel, first, ...rest) on heap hp, made through fn ("h", or "DOM"
\* for a tag factory), recorded with the heap it found
Record(hp, fn, shape, first, rest) ==
    \E r \in {h(hp, shape.sel, first, rest)} :
        /\ heap' = r.heap
        /\ last' = [fn |-> fn, shape |-> shape, sel |-> shape.sel, first |-> first,
                    rest |-> rest, pre |-> hp, ret |-> r.ret]

\* the inner expressions of the caller: h("span"), h("b", "hi"), in turn
ChildCalls == <<[shape |-> Shape(FALSE, <<"s","p","a","n">>, <<>>), first |-> Undefined],
                [shape |-> Shape(FALSE, <<"b">>, <<>>), first |-> Str(<<"h","i">>)]>>

BuildChild ==
    /\ phase = "setup"
    /\ nchild < MaxChildren
    /\ LET c == ChildCalls[(nchild % Len(ChildCalls)) + 1]
       IN  Record(heap, "h", c.shape, c.first, <<>>)
    /\ nchild' = nchild + 1
    /\ UNCHANGED <<prev, phase, nagain, rvars, evars, lvars>>

CallH ==
    /\ phase = "setup"
    /\ \E in \in HInputs(heap) :
          \E a \in {Eval(heap, <<in[2]>> \o in[3])} :
              Record(a.heap, "h", in[1], Head(a.vals), Tail(a.vals))
    /\ phase' = "called"
    /\ UNCHANGED <<prev, nchild, nagain, rvars, evars, lvars>>

\* DOM[name](first, ...rest)
CallDOM ==
    /\ phase = "setup"
    /\ \E name \in DOMAIN DOM, in \in DOMInputs(heap) :
          \E a \in {Eval(heap, <<in[1]>> \o in[2])} :
              Record(a.heap, "DOM", Shape(DOM[name].svg, name, <<>>),
                     Head(a.vals), Tail(a.vals))
    /\ phase' = "called"
    /\ UNCHANGED <<prev, nchild, nagain, rvars, evars, lvars>>

\* the same call once more: same selector, same argument values
CallAgain ==
    /\ phase = "called"
    /\ nagain < MaxAgain
    /\ \E r \in {h(heap, last.sel, last.first, last.rest)} :
           /\ heap' = r.heap
           /\ last' = [last EXCEPT !.pre = heap, !.ret = r.ret]
    /\ prev' = last
    /\ nagain' = nagain + 1
    /\ UNCHANGED <<phase, nchild, rvars, evars, lvars>>

Next == BuildChild \/ CallH \/ CallDOM \/ CallAgain

Spec == Init /\ [][Next]_vars

-----------------------------------------------------------------------------
(* The state machine of rendering: a caller that builds one tree, with h   *)
(* or by hand, constructs renderers, registers formatters and renders.     *)

KVE(k, e) == [k |-> k, v |-> e]

Text == <<"t","e","x","t">>
Div == <<"d","i","v">>
StyleObject == Lit(<<KV("color", <<"r","e","d">>), KV("width", <<"1","p","x">>)>>)

\* the calls of h whose result is rendered
RenderCalls(hp) ==
    {<<Shape(FALSE, Div, <<>>), Lit(<<KV("className", <<"x">>)>>), <<Str(Text)>>>>,
     <<Shape(FALSE, Div, <<>>), Lit(<<KVE("style", StyleObject)>>), <<>>>>,
     <<Shape(FALSE, Div, <<>>), Lit(<<KV("style", <<"s">>), KV("id", <<"b","a","r">>)>>), <<>>>>,
     <<Shape(FALSE, Div, <<>>), Lit(<<KVE("style", Null)>>), <<>>>>,
     <<Shape(TRUE, <<"A","b">>, <<<<"#","x">>>>), Undefined, <<>>>>}
    \cup {<<Shape(FALSE, Div, <<<<".","c">>>>), v, <<Str(Text)>>>> : v \in VNodesOf(hp)}

\* trees written by hand with the fields render reads: nodeName, attributes,
\* properties and children
HandMade ==
    {Lit(<<KV("nodeName", <<"D","I","V">>), KVE("attributes", Lit(<<>>)),
           KVE("properties", Lit(<<KV("className", <<"x">>), KVE("style", StyleObject),
                                   KV("xmlns", <<>>), KV("toString", <<"v">>)>>)),
           KVE("children", Arr(<<Str(Text)>>))>>),
     Lit(<<KV("nodeName", <<"A","b">>),
           KVE("attributes", Lit(<<KV("xmlns", <<"n","s">>)>>)),
           KVE("properties", Lit(<<KV("xmlns", <<"n","s">>), KV("id", <<"b","a","r">>)>>)),
           KVE("children", Arr(<<Lit(<<KV("nodeName", <<"g">>), KVE("attributes", Lit(<<>>)),
                                       KVE("properties", Lit(<<>>))>>),
                                 Str(Text)>>))>>),
     Lit(<<KV("nodeName", <<"b">>), KVE("attributes", Lit(<<KV("xmlns", <<"n","s">>)>>))>>)}

\* the tree to render is the result of a call of h
BuildTree ==
    /\ phase = "setup"
    /\ \E in \in RenderCalls(heap) :
          \E a \in {Eval(heap, <<in[2]>> \o in[3])} :
              Record(a.heap, "h", in[1], Head(a.vals), Tail(a.vals))
    /\ phase' = "built"
    /\ UNCHANGED <<prev, nchild, nagain, rvars, evars, lvars>>

\* the tree to render is an object literal of the caller
MakeVTree ==
    /\ phase = "setup"
    /\ \E e \in HandMade :
          \E a \in {Eval(heap, <<e>>)} :
              /\ heap' = a.heap
              /\ last' = [NoCall EXCEPT !.fn = "literal", !.pre = a.heap, !.ret = a.vals[1]]
    /\ phase' = "built"
    /\ UNCHANGED <<prev, nchild, nagain, rvars, evars, lvars>>

\* new Renderer(document)
NewRenderer ==
    /\ phase = "built"
    /\ Len(renderers) < MaxRenderers
    /\ renderers' = Append(renderers, NewFormatters)
    /\ UNCHANGED <<hvars, document, rendered, nset, nrender, evars, lvars>>

FormatterNames == {"style", "id", "className"}
Formatters == {Fn("prefixFormatter"), Fn("defaultStyleFormatter")}

\* renderers[r].setFormatterFor(name, formatter)
SetFormatterFor ==
    /\ nset < MaxSets
    /\ \E r \in DOMAIN renderers, name \in FormatterNames, formatter \in Formatters :
          renderers' = [renderers EXCEPT ![r] = setFormatterFor(@, name, formatter)]
    /\ nset' = nset + 1
    /\ UNCHANGED <<hvars, document, rendered, nrender, evars, lvars>>

\* what the caller renders: the tree, one of its children, or a string
VTrees ==
    {last.ret, Str(Text)}
    \cup (IF last.fn = "h" /\ last.ret # TypeError
          THEN Range(heap[Get(heap[last.ret.r], "children").r].elems) ELSE {})

\* renderers[r].render(vtree)
Render ==
    /\ nrender < MaxRenders
    /\ \E r \in DOMAIN renderers, vtree \in VTrees :
          \E out \in {render(renderers[r], heap, document, vtree)} :
              /\ document' = out.document
              /\ rendered' = [renderer |-> r, vtree |-> vtree, formatters |-> renderers[r],
                              pre |-> document, ret |-> out.ret]
    /\ nrender' = nrender + 1
    /\ UNCHANGED <<hvars, renderers, nset, evars, lvars>>

NextRender == BuildChild \/ BuildTree \/ MakeVTree \/ NewRenderer \/ SetFormatterFor \/ Render

SpecRender == Init /\ [][NextRender]_vars

-----------------------------------------------------------------------------
(* The state machine of the emitter: a caller that registers listeners on  *)
(* the target, then emits and removes.                                     *)

Types == {"message", "done"}
ListenerNames == {"plain", "adder", "remover", "readder", "thrower", "nullThrower",
                  "reemitter", "typeClearer", "allClearer", "resetter"}

\* the registrations the caller makes; one of them with no listener at all
OnInputs ==
    {<<"message", Fn(n)>> : n \in ListenerNames}
    \cup {<<"done", Fn("plain")>>, <<"done", Fn("reemitter")>>, <<"message", Undefined>>,
          <<"message", HandlerObject("plain")>>}

\* the arguments of the emits of the caller
EmitArgs == <<Str(<<"a">>), Str(<<"b">>)>>

\* the emitter as a call of the caller finds it
Now == [events |-> events, fired |-> fired, log |-> log, emits |-> emits,
        stack |-> <<>>, threw |-> FALSE, ex |-> "none"]

\* the emitter as the call leaves it
Commit(st) ==
    /\ events' = st.events
    /\ fired' = st.fired
    /\ log' = st.log
    /\ emits' = st.emits

\* on(target, type, listener)
On ==
    /\ ephase = "register"
    /\ non < MaxOn
    /\ \E in \in OnInputs : \E st \in {on(Now, in[1], in[2])} : Commit(st)
    /\ non' = non + 1
    /\ UNCHANGED <<hvars, rvars, lvars, ephase, nrun, noff>>

\* emit(target, type, "a", "b")
Emit ==
    /\ nrun < MaxRun
    /\ \E type \in Types : \E st \in {emit(Now, type, EmitArgs)} : Commit(st)
    /\ ephase' = "run"
    /\ nrun' = nrun + 1
    /\ UNCHANGED <<hvars, rvars, lvars, non, noff>>

\* off(target, "message", plain)
Off3 ==
    /\ nrun < MaxRun
    /\ \E st \in {off3(Now, "message", Fn("plain"))} : Commit(st)
    /\ ephase' = "run"
    /\ nrun' = nrun + 1
    /\ UNCHANGED <<hvars, rvars, lvars, non, noff>>

\* off(target, "message")
Off2 ==
    /\ nrun < MaxRun
    /\ \E st \in {off2(Now, "message")} : Commit(st)
    /\ ephase' = "run"
    /\ nrun' = nrun + 1
    /\ UNCHANGED <<hvars, rvars, lvars, non, noff>>

\* off(target)
Off1 ==
    /\ nrun < MaxRun
    /\ \E st \in {off1(Now)} : Commit(st)
    /\ ephase' = "run"
    /\ nrun' = nrun + 1
    /\ UNCHANGED <<hvars, rvars, lvars, non, noff>>

NextEmitter == On \/ Emit \/ Off3 \/ Off2 \/ Off1

SpecEmitter == Init /\ [][NextEmitter]_vars

-----------------------------------------------------------------------------
(* The state machine of a caller of once: it registers, with once and with *)
(* on, then calls off, then emits.                                         *)

\* the listeners given to once; Undefined is once(target, type)
OnceInputs ==
    {Undefined, Fn("plain"), Fn("reemitter"), Fn("thrower"), HandlerObject("plain"),
     Predicate("whenB")}

\* the arguments given to off after the target
OffInputs ==
    {<<"message", l>> : l \in {Undefined, Fn("plain"), HandlerObject("plain"),
                               Predicate("whenB"), Fn("whenB"), Fn("other")}}
    \cup {<<UndefinedType, Undefined>>, <<UndefinedType>>}

\* the first argument of the emits
Firsts == {Str(<<"a">>), Str(<<"b">>)}

\* once(target, "message", listener), once(target, "message")
Once ==
    /\ ephase = "register"
    /\ non < MaxOnce
    /\ \E l \in OnceInputs : \E st \in {once(Now, "message", l)} : Commit(st)
    /\ non' = non + 1
    /\ UNCHANGED <<hvars, rvars, lvars, ephase, nrun, noff>>

\* on(target, "message", plain)
OnPlain ==
    /\ ephase = "register"
    /\ non < MaxOnce
    /\ \E st \in {on(Now, "message", Fn("plain"))} : Commit(st)
    /\ non' = non + 1
    /\ UNCHANGED <<hvars, rvars, lvars, ephase, nrun, noff>>

\* off(target, type, listener), off(target, type); the exception of off goes to
\* the caller
OffGiven ==
    /\ ephase \in {"register", "remove"}
    /\ noff < MaxOff
    /\ \E call \in OffInputs :
         \E st \in {IF Len(call) = 2 THEN off3(Now, call[1], call[2])
                    ELSE off2(Now, call[1])} : Commit(st)
    /\ ephase' = "remove"
    /\ noff' = noff + 1
    /\ UNCHANGED <<hvars, rvars, lvars, non, nrun>>

\* emit(target, "message", first)
EmitFirst ==
    /\ nrun < MaxEmit
    /\ \E first \in Firsts : \E st \in {emit(Now, "message", <<first>>)} : Commit(st)
    /\ ephase' = "emit"
    /\ nrun' = nrun + 1
    /\ UNCHANGED <<hvars, rvars, lvars, non, noff>>

NextOnce == Once \/ OnPlain \/ OffGiven \/ EmitFirst

SpecOnce == Init /\ [][NextOnce]_vars

-----------------------------------------------------------------------------
(* The state machine of one ManageRecords instance: every action is one    *)
(* run of the event loop, from an event or the settling of a promise to    *)
(* the next await.                                                         *)

\* the mutant of Reentrant: a call of loadRecords never returns early
ReentrantNever == FALSE

\* if (this._isLoadingRecords)
Reentrant == isLoadingRecords

\* the executions of _loadRecords that have begun and not ended
InFlight == {i \in DOMAIN loads : loads[i].pc \in {"getStorage", "render"}}

\* the begin of _loadRecords for the call number c, up to await this.getStorage()
Begin(c) == Append(loads, [call |-> c, pc |-> "getStorage", left |-> 0])

\* loadRecords(), up to its first await: the early return, or the flag and the
\* begin of _loadRecords
LoadRecords(from) ==
    /\ Len(calls) < MaxCalls
    /\ IF Reentrant
       THEN /\ newRequest' = TRUE
            /\ calls' = Append(calls, [from |-> from, pc |-> "early"])
            /\ UNCHANGED <<isLoadingRecords, loads>>
       ELSE /\ isLoadingRecords' = TRUE
            /\ calls' = Append(calls, [from |-> from, pc |-> "await"])
            /\ loads' = Begin(Len(calls) + 1)
            /\ UNCHANGED newRequest

\* handleEvent, DOMContentLoaded (once): init() calls loadRecords
DOMContentLoaded ==
    /\ calls = <<>>
    /\ LoadRecords("init")
    /\ UNCHANGED <<storage, elements, observing, hvars, rvars, evars>>

\* observe(subject, "formautofill-storage-changed", data) calls loadRecords
Observe ==
    /\ observing
    /\ LoadRecords("observe")
    /\ UNCHANGED <<storage, elements, observing, hvars, rvars, evars>>

\* profileStorage.initialize() settles: the storage is there, or it is not
StorageInit ==
    /\ storage = "pending"
    /\ storage' \in {"ready", "failed"}
    /\ UNCHANGED <<isLoadingRecords, newRequest, calls, loads, elements, observing,
                   hvars, rvars, evars>>

\* an execution of _loadRecords ends with an exception, and with it the call of
\* loadRecords that awaits it: the flag stays as it is
Fail(i) ==
    /\ loads' = [loads EXCEPT ![i].pc = "failed"]
    /\ calls' = [calls EXCEPT ![loads[i].call].pc = "failed"]
    /\ UNCHANGED <<isLoadingRecords, newRequest>>

\* _loadRecords after await this.getStorage(): getAll, sort, and
\* renderRecordElements up to its first await, for a storage of n records;
\* this._selectedOptions raises when uninit has set _elements to null
GotStorage ==
    /\ \E i \in DOMAIN loads :
         /\ loads[i].pc = "getStorage"
         /\ storage # "pending"
         /\ IF storage = "failed" \/ ~elements
            THEN Fail(i)
            ELSE /\ \E n \in 0..MaxRecords :
                      loads' = [loads EXCEPT ![i].pc = "render", ![i].left = n]
                 /\ UNCHANGED <<isLoadingRecords, newRequest, calls>>
    /\ UNCHANGED <<storage, elements, observing, hvars, rvars, evars>>

\* renderRecordElements after await this.getLabel(record): the option is added
GotLabel ==
    /\ \E i \in DOMAIN loads :
         /\ loads[i].pc = "render"
         /\ loads[i].left > 0
         /\ IF ~elements
            THEN Fail(i)
            ELSE /\ loads' = [loads EXCEPT ![i].left = @ - 1]
                 /\ UNCHANGED <<isLoadingRecords, newRequest, calls>>
    /\ UNCHANGED <<storage, elements, observing, hvars, rvars, evars>>

\* _loadRecords after await this.renderRecordElements(records):
\* updateButtonsStates, and the end of the execution
LoadDone ==
    /\ \E i \in DOMAIN loads :
         /\ loads[i].pc = "render"
         /\ loads[i].left = 0
         /\ IF ~elements
            THEN Fail(i)
            ELSE /\ loads' = [loads EXCEPT ![i].pc = "done"]
                 /\ UNCHANGED <<isLoadingRecords, newRequest, calls>>
    /\ UNCHANGED <<storage, elements, observing, hvars, rvars, evars>>

\* loadRecords after await this._loadRecords(): the loop while (this._newRequest),
\* or the reset of the flag; init then attaches the listeners and the observer
Resume ==
    /\ \E c \in DOMAIN calls :
         /\ calls[c].pc = "await"
         /\ \E i \in DOMAIN loads : loads[i].call = c /\ loads[i].pc = "done"
         /\ \A i \in DOMAIN loads : loads[i].call = c => loads[i].pc = "done"
         /\ IF newRequest
            THEN /\ newRequest' = FALSE
                 /\ loads' = Begin(c)
                 /\ UNCHANGED <<isLoadingRecords, calls, observing>>
            ELSE /\ isLoadingRecords' = FALSE
                 /\ calls' = [calls EXCEPT ![c].pc = IF elements THEN "returned"
                                                     ELSE "failed"]
                 /\ observing' = (observing \/ (calls[c].from = "init" /\ elements))
                 /\ UNCHANGED <<newRequest, loads>>
    /\ UNCHANGED <<storage, elements, hvars, rvars, evars>>

\* handleEvent, unload (once): uninit() detaches and sets _elements to null
Unload ==
    /\ observing
    /\ elements
    /\ elements' = FALSE
    /\ observing' = FALSE
    /\ UNCHANGED <<isLoadingRecords, newRequest, calls, loads, storage,
                   hvars, rvars, evars>>

NextLoad ==
    DOMContentLoaded \/ Observe \/ StorageInit \/ GotStorage \/ GotLabel \/ LoadDone
    \/ Resume \/ Unload

SpecLoad == Init /\ [][NextLoad]_vars

-----------------------------------------------------------------------------
(* The last call as the properties speak of it.                            *)

Called == last.fn # "none"
Returned == Called /\ last.ret # TypeError

\* the fields of the VNode v in heap hp
TagNameOf(hp, v) == Get(hp[v.r], "tagName")
PropertiesOf(hp, v) == hp[Get(hp[v.r], "properties").r]
ChildrenOf(hp, v) == hp[Get(hp[v.r], "children").r].elems

\* what the specification calls a VNode: an object with both a tag-name field
\* and a properties field
IsVNodeValue(hp, v) ==
    v.t = "object" /\ {"tagName", "properties"} \subseteq Keys(hp[v.r])
IsArrayValue(hp, v) == v.t = "object" /\ hp[v.r].array
IsPlainObject(hp, v) == v.t = "object" /\ ~hp[v.r].array /\ ~IsVNodeValue(hp, v)

\* a string that starts with "." or "#"
IsFragment(v) == v.t = "string" /\ v.s # <<>> /\ Head(v.s) \in {".", "#"}

RECURSIVE DeepEqual(_, _, _, _)
\* deepEqual(a, b), a read in heap ha and b in heap hb: same keys with deep-equal
\* values, whatever their order, and the same elements
DeepEqual(ha, a, hb, b) ==
    IF a.t # "object" \/ b.t # "object" THEN a = b
    ELSE LET x == ha[a.r]
             y == hb[b.r]
         IN  /\ x.array = y.array
             /\ Keys(x) = Keys(y)
             /\ \A k \in Keys(x) : DeepEqual(ha, Get(x, k), hb, Get(y, k))
             /\ Len(x.elems) = Len(y.elems)
             /\ \A i \in DOMAIN x.elems : DeepEqual(ha, x.elems[i], hb, y.elems[i])

\* the last call did what the call e (a heap and a returned value) did: both
\* raised, or both returned and the results are deep-equal
SameOutcome(e) ==
    IF e.ret = TypeError THEN last.ret = TypeError
    ELSE last.ret # TypeError /\ DeepEqual(heap, last.ret, e.heap, e.ret)

\* the selectors of the inputs in which the pattern matches no token
NoTokenSelectors == {Str(<<".">>), Str(<<"#">>), Str(<<"@">>)}

-----------------------------------------------------------------------------
(* C1. h never raises: for every selector (empty, left out, or any string, *)
(* also one in which no token matches) and every argument list of strings, *)
(* null/undefined, arrays, VNodes and plain objects, h returns a VNode.    *)
(* The code raises a TypeError: h(".") iterates over null, and             *)
(* h(sel, "text1", "text2") applies the in operator to a string.           *)

C1_NeverRaises == Called => last.ret # TypeError

-----------------------------------------------------------------------------
(* C2. String-first overload of h(selector, first, ...rest): a fragment    *)
(* first ("." or "#" in front) with a VNode as rest[0] gives the VNode for *)
(* selector+first with empty properties and all of rest as children; a     *)
(* fragment first with another rest[0] gives the VNode for selector+first  *)
(* with rest[0] as properties and rest[1..] as children; any other string  *)
(* first gives empty properties and the children [first, ...rest], also    *)
(* when rest holds further strings.  The code raises when rest[0] is a     *)
(* non-empty string.                                                       *)

C2_Expected ==
    IF IsFragment(last.first) /\ last.rest # <<>> /\ IsVNodeValue(last.pre, last.rest[1])
    THEN createVNode(last.pre, Plus(last.sel, last.first), Undefined, last.rest)
    ELSE IF IsFragment(last.first)
    THEN createVNode(last.pre, Plus(last.sel, last.first),
                     IF last.rest = <<>> THEN Undefined ELSE Head(last.rest),
                     IF last.rest = <<>> THEN <<>> ELSE Tail(last.rest))
    ELSE createVNode(last.pre, last.sel, Undefined, <<last.first>> \o last.rest)

C2_StringFirstOverload ==
    (Called /\ last.first.t = "string") =>
        \A e \in {C2_Expected} : e.ret # TypeError => SameOutcome(e)

-----------------------------------------------------------------------------
(* C3. Non-string overloads of h(selector, first, ...rest), in priority    *)
(* order: first null or undefined gives empty properties and the children  *)
(* rest; first a VNode gives empty properties and the children             *)
(* [first, ...rest]; first an array gives empty properties and the         *)
(* children [...first, ...rest]; any other object first is the properties  *)
(* map itself and the children are rest.  Stated for the selectors in      *)
(* which the pattern finds a token, or that are empty or left out, where   *)
(* the call returns.                                                       *)

C3_Expected ==
    IF last.first.t \in {"null", "undefined"}
    THEN createVNode(last.pre, last.sel, Undefined, last.rest)
    ELSE IF IsVNodeValue(last.pre, last.first)
    THEN createVNode(last.pre, last.sel, Undefined, <<last.first>> \o last.rest)
    ELSE IF IsArrayValue(last.pre, last.first)
    THEN createVNode(last.pre, last.sel, Undefined, last.pre[last.first.r].elems \o last.rest)
    ELSE createVNode(last.pre, last.sel, last.first, last.rest)

C3_NonStringOverloads ==
    (Called /\ last.first.t # "string" /\ last.sel \notin NoTokenSelectors) =>
        /\ Returned
        /\ \A e \in {C3_Expected} : e.ret # TypeError /\ SameOutcome(e)
        \* the properties map is first itself, or else an object made by the call
        /\ IF IsPlainObject(last.pre, last.first)
           THEN Get(heap[last.ret.r], "properties") = last.first
           ELSE Get(heap[last.ret.r], "properties").r > Len(last.pre)

\* h("Ab", [null, ".e", undefined, "t"], ...rest) returned: the array was spread and
\* its strings are children, not a selector fragment
C3_Witness ==
    /\ Returned
    /\ IsArrayValue(last.pre, last.first)
    /\ Len(last.pre[last.first.r].elems) = 4
    /\ Len(last.rest) = 2
    /\ Len(ChildrenOf(heap, last.ret)) >= 3
    /\ ~HasKey(PropertiesOf(heap, last.ret), "className")

-----------------------------------------------------------------------------
(* The selector and the properties as the caller wrote them.               *)

\* the #id and .class fragments the call works with: those of the selector, then
\* first when it is a fragment
EffectiveFrags ==
    last.shape.frags \o (IF IsFragment(last.first) THEN <<last.first.s>> ELSE <<>>)

IsIdFrag(f) == Head(f) = "#"
IsClassFrag(f) == Head(f) = "."
Names(frags) == [i \in DOMAIN frags |-> Tail(frags[i])]

SelectorIds == Names(SelectSeq(EffectiveFrags, IsIdFrag))
SelectorClasses == Names(SelectSeq(EffectiveFrags, IsClassFrag))

\* the tag the selector names, div when it names none
SelectorTag == IF last.shape.tag = <<>> THEN <<"d","i","v">> ELSE last.shape.tag

\* the properties map the caller supplied: first, or after a fragment rest[0],
\* when it is an object and no VNode (an array first is a list of children)
ExplicitProps ==
    IF IsPlainObject(last.pre, last.first) THEN last.first
    ELSE IF /\ IsFragment(last.first)
            /\ last.rest # <<>>
            /\ last.rest[1].t = "object"
            /\ ~IsVNodeValue(last.pre, last.rest[1])
    THEN last.rest[1]
    ELSE Undefined

\* whether the caller supplied key k, and with what value
Supplied(k) == ExplicitProps.t = "object" /\ HasKey(last.pre[ExplicitProps.r], k)
SuppliedValue(k) == Get(last.pre[ExplicitProps.r], k)

-----------------------------------------------------------------------------
(* C4. Case of tagName.  As claimed: tagName is the selector's tag         *)
(* upper-cased exactly when properties has no xmlns key, and with an xmlns *)
(* key, whatever its value (also ""), tagName keeps the selector's case.   *)
(* The code tests the value: an empty xmlns upper-cases the tag.           *)

C4_CaseByXmlnsKey ==
    (Returned /\ last.shape.ok) =>
        IF HasKey(PropertiesOf(heap, last.ret), "xmlns")
        THEN TagNameOf(heap, last.ret) = Str(SelectorTag)
        ELSE TagNameOf(heap, last.ret) = Str(toUpperCase(SelectorTag))

(* C4 as amended: tagName is the selector's tag upper-cased when           *)
(* properties.xmlns is missing or falsy (such as ""), and the selector's   *)
(* tag exactly as written when properties.xmlns is truthy, whether         *)
(* supplied by the caller or derived from an svg selector.                 *)

C4_CaseByNamespace ==
    (Returned /\ last.shape.ok) =>
        IF Truthy(Get(PropertiesOf(heap, last.ret), "xmlns"))
        THEN TagNameOf(heap, last.ret) = Str(SelectorTag)
        ELSE TagNameOf(heap, last.ret) = Str(toUpperCase(SelectorTag))

\* h("Ab...", {xmlns: ""}) returned AB with the xmlns key in its properties
C4_Witness ==
    /\ Returned
    /\ last.shape.tag = <<"A","b">>
    /\ Supplied("xmlns")
    /\ Get(PropertiesOf(heap, last.ret), "xmlns") = Str(<<>>)
    /\ TagNameOf(heap, last.ret) = Str(<<"A","B">>)

-----------------------------------------------------------------------------
(* C5. SVG selectors: for every tag name X, h("svg:" + X) returns tagName  *)
(* exactly X, prefix stripped and case kept, with properties.xmlns the SVG *)
(* namespace; h("svg") returns tagName "svg" with the same xmlns; also     *)
(* with #id and .class fragments after the tag.  Checked for every call    *)
(* with such a selector that returns, and the call without further         *)
(* arguments returns.                                                      *)

C5_SvgSelectors ==
    (Called /\ last.shape.ok /\ (last.shape.svg \/ last.shape.tag = <<"s","v","g">>)) =>
        /\ (last.first = Undefined /\ last.rest = <<>>) => Returned
        /\ Returned =>
              /\ TagNameOf(heap, last.ret) = Str(last.shape.tag)
              /\ Get(PropertiesOf(heap, last.ret), "xmlns") = SVG_NS

\* h("svg:Ab" + two fragments) returned Ab in the SVG namespace
C5_Witness ==
    /\ Returned
    /\ last.fn = "h"
    /\ last.shape.svg
    /\ Len(last.shape.frags) = 2
    /\ last.first = Undefined
    /\ TagNameOf(heap, last.ret) = Str(<<"A","b">>)
    /\ Get(PropertiesOf(heap, last.ret), "xmlns") = SVG_NS

-----------------------------------------------------------------------------
(* C6. Factory equivalence: for every name t of the HTML tag list and      *)
(* every argument list DOM[t](...args) deep-equals h(t, ...args), and for  *)
(* every name s of the SVG tag list DOM[s](...args) deep-equals            *)
(* h("svg:" + s, ...args); both for every listed name, also the names in   *)
(* both lists.  In the code the SVG factory replaces the HTML factory of   *)
(* font, image, script, style and title.                                   *)

C6_FactoryEquivalence ==
    (Called /\ last.fn = "DOM") =>
        /\ last.shape.tag \in Range(HTML_TAG_NAMES) =>
              SameOutcome(h(last.pre, Str(last.shape.tag), last.first, last.rest))
        /\ last.shape.tag \in Range(SVG_TAG_NAMES) =>
              SameOutcome(h(last.pre, Str(<<"s","v","g",":">> \o last.shape.tag),
                            last.first, last.rest))

-----------------------------------------------------------------------------
(* C7. The builder is pure: a call h(selector, props, ...children) leaves  *)
(* every argument unchanged; the caller's props object has the same keys   *)
(* and values after the call as before.  The code writes id, xmlns and     *)
(* className into the props object it was given, and deletes class.        *)

C7_ArgumentsUnchanged ==
    Called =>
        \A i \in 1..(1 + Len(last.rest)) :
            LET a == (<<last.first>> \o last.rest)[i]
            IN  /\ DeepEqual(last.pre, a, heap, a)
                /\ a.t = "object" => heap[a.r].props = last.pre[a.r].props

-----------------------------------------------------------------------------
(* C8. Idempotence and independence: h called twice with identical         *)
(* arguments, the same props object both times, yields two deep-equal      *)
(* VNodes that are distinct instances and share no mutable state: the      *)
(* properties map and the children of one are not the objects of the other *)
(* nor any argument, and the second call does not change the first result. *)
(* In the code both results hold the caller's props object, and the second *)
(* call changes it.                                                        *)

C8_IndependentResults ==
    (nagain > 0 /\ Returned /\ prev.ret # TypeError) =>
        LET a == heap[prev.ret.r]
            b == heap[last.ret.r]
            args == Range(<<last.first>> \o last.rest)
        IN  /\ DeepEqual(heap, prev.ret, heap, last.ret)
            /\ prev.ret # last.ret
            /\ Get(a, "properties") # Get(b, "properties")
            /\ Get(a, "children") # Get(b, "children")
            /\ {Get(a, "properties"), Get(b, "properties"),
                Get(a, "children"), Get(b, "children")} \cap args = {}
            \* the first result now is what it was before the second call
            /\ DeepEqual(last.pre, prev.ret, heap, prev.ret)

-----------------------------------------------------------------------------
(* C9. Id precedence: the selector's #id is only a default.  When the      *)
(* properties map the caller supplied has an id key, properties.id of the  *)
(* result is that value; without one it is the selector's id, the last     *)
(* #id if there are several (and there is no id when the selector has      *)
(* none either).                                                           *)

C9_IdPrecedence ==
    (Returned /\ last.shape.ok) =>
        LET p == PropertiesOf(heap, last.ret)
        IN  IF Supplied("id") THEN Get(p, "id") = SuppliedValue("id")
            ELSE IF SelectorIds # <<>>
                 THEN Get(p, "id") = Str(SelectorIds[Len(SelectorIds)])
            ELSE ~HasKey(p, "id")

\* h with a selector holding an #id and an explicit id "bar" returned the id "bar"
C9_Witness ==
    /\ Returned
    /\ last.shape.ok
    /\ SelectorIds # <<>>
    /\ Supplied("id")
    /\ Get(PropertiesOf(heap, last.ret), "id") = Str(<<"b","a","r">>)

-----------------------------------------------------------------------------
(* C10. Class merging: properties.className of the result is the           *)
(* space-joined list of the selector's .class tokens in selector order,    *)
(* those of the base selector then that of a fragment first argument,      *)
(* followed by the className the caller supplied if any; with neither a    *)
(* selector class nor a supplied className there is no className.          *)

C10_ClassMerging ==
    (Returned /\ last.shape.ok) =>
        LET p == PropertiesOf(heap, last.ret)
            expected == IF Supplied("className")
                        THEN Append(SelectorClasses, SuppliedValue("className").s)
                        ELSE SelectorClasses
        IN  IF expected = <<>> THEN ~HasKey(p, "className")
            ELSE Get(p, "className") = Str(join(expected, <<" ">>))

\* h("...c.d", {className: "baz"}) returned the className "c d baz"
C10_Witness ==
    /\ Returned
    /\ last.shape.ok
    /\ SelectorClasses = <<<<"c">>, <<"d">>>>
    /\ Supplied("className")
    /\ Get(PropertiesOf(heap, last.ret), "className")
          = Str(<<"c"," ","d"," ","b","a","z">>)

-----------------------------------------------------------------------------
(* C11. class versus className: when the caller supplies both a class key  *)
(* and a className key, the returned properties carry className, holding   *)
(* the supplied className after the selector's classes, and no class key;  *)
(* and no VNode returned by h has both a class key and a className key in  *)
(* its properties.                                                         *)

C11_ClassOrClassName ==
    Returned =>
        LET p == PropertiesOf(heap, last.ret)
        IN  /\ ~(HasKey(p, "class") /\ HasKey(p, "className"))
            /\ (Supplied("class") /\ Supplied("className")) =>
                  /\ HasKey(p, "className")
                  /\ ~HasKey(p, "class")
                  /\ last.shape.ok =>
                        Get(p, "className")
                          = Str(join(Append(SelectorClasses, SuppliedValue("className").s),
                                     <<" ">>))

\* h(".c...", {class: "k", className: "baz"}) returned className "c baz" and no class
C11_Witness ==
    /\ Returned
    /\ Supplied("class")
    /\ Supplied("className")
    /\ SelectorClasses = <<<<"c">>>>
    /\ Get(PropertiesOf(heap, last.ret), "className") = Str(<<"c"," ","b","a","z">>)
    /\ ~HasKey(PropertiesOf(heap, last.ret), "class")

-----------------------------------------------------------------------------
(* C12. Children normalization: the children of the returned VNode are the *)
(* child arguments, arrays among them spread one level, in argument order, *)
(* with exactly null and undefined removed; 0, "" and false given as       *)
(* children are kept, and no element of children is null or undefined.     *)
(* The child arguments are those of the overload taken: first and rest for *)
(* a text or VNode first, the elements of first and rest for an array      *)
(* first, rest after the properties map otherwise.                         *)

ChildArguments ==
    LET f == last.first
        r == last.rest
    IN  IF f.t = "string"
        THEN IF ~IsFragment(f) THEN <<f>> \o r
             ELSE IF r # <<>> /\ IsVNodeValue(last.pre, r[1]) THEN r
             ELSE IF r = <<>> THEN <<>> ELSE Tail(r)
        ELSE IF IsVNodeValue(last.pre, f) THEN <<f>> \o r
        ELSE IF IsArrayValue(last.pre, f) THEN last.pre[f.r].elems \o r
        ELSE r

RECURSIVE SpreadOnce(_)
\* the values vs with each array among them replaced by its elements
SpreadOnce(vs) ==
    IF vs = <<>> THEN <<>>
    ELSE (IF IsArrayValue(last.pre, Head(vs)) THEN last.pre[Head(vs).r].elems
          ELSE <<Head(vs)>>) \o SpreadOnce(Tail(vs))

IsNullOrUndefined(v) == v = Null \/ v = Undefined
IsGiven(v) == ~IsNullOrUndefined(v)

C12_ChildrenNormalized ==
    Returned =>
        LET ch == ChildrenOf(heap, last.ret)
        IN  /\ ch = SelectSeq(SpreadOnce(ChildArguments), IsGiven)
            /\ \A i \in DOMAIN ch : ~IsNullOrUndefined(ch[i])

\* a call returned children that hold 0, "" and false and an array that was an
\* element of an array argument, where null was among the arguments
C12_Witness ==
    /\ Returned
    /\ {Num(0), Str(<<>>), Bool(FALSE)} \subseteq Range(ChildrenOf(heap, last.ret))
    /\ \E c \in Range(ChildrenOf(heap, last.ret)) : IsArrayValue(heap, c)
    /\ Null \in Range(SpreadOnce(ChildArguments))

-----------------------------------------------------------------------------
(* C13. Default element.  As claimed: h(), h(undefined), h("") and h(S)    *)
(* for every selector S made only of #id and .class tokens return tagName  *)
(* "DIV"; with an empty or missing selector and no further arguments the   *)
(* properties map is empty and children is empty; and a tag factory called *)
(* with no arguments returns its tag with empty properties and no          *)
(* children.  The factories of the SVG names, and DOM.svg, return          *)
(* properties that hold xmlns.                                             *)

NoArguments == last.first = Undefined /\ last.rest = <<>>

\* h called with the selector alone, missing, empty or made of fragments only
TaglessCall ==
    /\ Called
    /\ last.fn = "h"
    /\ NoArguments
    /\ \/ last.sel \in {Undefined, Str(<<>>)}
       \/ last.shape.ok /\ last.shape.tag = <<>> /\ ~last.shape.svg

C13_TaglessIsDiv ==
    TaglessCall =>
        /\ Returned
        /\ TagNameOf(heap, last.ret) = Str(<<"D","I","V">>)
        /\ last.shape.frags = <<>> =>
              /\ PropertiesOf(heap, last.ret).props = <<>>
              /\ ChildrenOf(heap, last.ret) = <<>>

C13_DefaultElement ==
    /\ C13_TaglessIsDiv
    /\ (Called /\ last.fn = "DOM" /\ NoArguments) =>
          /\ Returned
          /\ TagNameOf(heap, last.ret)
                \in {Str(last.shape.tag), Str(toUpperCase(last.shape.tag))}
          /\ PropertiesOf(heap, last.ret).props = <<>>
          /\ ChildrenOf(heap, last.ret) = <<>>

(* C13 as amended: the same for h; a tag factory called with no arguments  *)
(* returns no children, and for a name of the SVG tag list, or svg, the    *)
(* tag as written with properties holding xmlns, the SVG namespace, and    *)
(* nothing else, for every other name the tag upper-cased with empty       *)
(* properties.                                                             *)

C13_DefaultElementOrSvg ==
    /\ C13_TaglessIsDiv
    /\ (Called /\ last.fn = "DOM" /\ NoArguments) =>
          /\ Returned
          /\ ChildrenOf(heap, last.ret) = <<>>
          /\ IF last.shape.tag \in Range(SVG_TAG_NAMES) \cup {<<"s","v","g">>}
             THEN /\ TagNameOf(heap, last.ret) = Str(last.shape.tag)
                  /\ PropertiesOf(heap, last.ret).props = <<[k |-> "xmlns", v |-> SVG_NS]>>
             ELSE /\ TagNameOf(heap, last.ret) = Str(toUpperCase(last.shape.tag))
                  /\ PropertiesOf(heap, last.ret).props = <<>>

\* DOM.circle() returned circle with xmlns as its only property
C13_Witness ==
    /\ Returned
    /\ last.fn = "DOM"
    /\ NoArguments
    /\ last.shape.tag = <<"c","i","r","c","l","e">>
    /\ Keys(PropertiesOf(heap, last.ret)) = {"xmlns"}

-----------------------------------------------------------------------------
(* C14. The SVG namespace is only a default for xmlns: when the selector   *)
(* tag is svg or svg:-prefixed and the caller supplies no xmlns,           *)
(* properties.xmlns is the SVG namespace; an xmlns the caller supplies is  *)
(* kept as supplied; when the selector has no svg tag and no xmlns is      *)
(* supplied, the returned properties have no xmlns key.  In the code an    *)
(* svg selector writes the SVG namespace over the xmlns supplied.          *)

C14_NamespaceDefault ==
    (Returned /\ last.shape.ok) =>
        LET p == PropertiesOf(heap, last.ret)
        IN  IF Supplied("xmlns") THEN Get(p, "xmlns") = SuppliedValue("xmlns")
            ELSE IF last.shape.svg \/ last.shape.tag = <<"s","v","g">>
                 THEN Get(p, "xmlns") = SVG_NS
            ELSE ~HasKey(p, "xmlns")

-----------------------------------------------------------------------------
(* C15. Array and variadic children are equivalent: for every selector and *)
(* every list c1..cn of children, VNodes or text strings, also strings     *)
(* that start with "." or "#", h(tag, [c1, ..., cn]) deep-equals           *)
(* h(tag, c1, ..., cn), and both have exactly the n children in the given  *)
(* order.  In the code the variadic call raises when c2 is a non-empty     *)
(* string after a string c1, and takes a c1 that starts with "." or "#"    *)
(* as a part of the selector.                                              *)

\* the last call was h(selector, [c1, ..., cn]) with VNodes and strings as c1..cn
ArrayOfChildrenCall ==
    /\ Called
    /\ IsArrayValue(last.pre, last.first)
    /\ last.rest = <<>>
    /\ \A c \in Range(last.pre[last.first.r].elems) :
           c.t = "string" \/ IsVNodeValue(last.pre, c)

C15_ArrayVariadic ==
    ArrayOfChildrenCall =>
        LET cs == last.pre[last.first.r].elems
        IN  \A e \in {h(last.pre, last.sel,
                        IF cs = <<>> THEN Undefined ELSE Head(cs),
                        IF cs = <<>> THEN <<>> ELSE Tail(cs))} :
                /\ Returned
                /\ e.ret # TypeError
                /\ DeepEqual(heap, last.ret, e.heap, e.ret)
                /\ ChildrenOf(heap, last.ret) = cs
                /\ ChildrenOf(e.heap, e.ret) = cs

-----------------------------------------------------------------------------
(* The last render as the properties speak of it.                          *)

Rendered == rendered.renderer # 0
\* the last render was given a VNode as h builds them
RenderedVNode == Rendered /\ IsVNodeValue(heap, rendered.vtree)
RenderReturned == Rendered /\ rendered.ret # TypeError

\* the nodes the last render created
NewNodes == SubSeq(document, Len(rendered.pre) + 1, Len(document))

RECURSIVE Mirrors(_, _)
\* node n of the document is the rendering of v: a text node holding the string
\* v, or an element with the tag of the VNode v and the renderings of its
\* children as its children, in order
Mirrors(n, v) ==
    IF v.t = "string" THEN document[n].kind = "text" /\ document[n].data = v
    ELSE /\ IsVNodeValue(heap, v)
         /\ document[n].kind = "element"
         /\ document[n].name = TagNameOf(heap, v)
         /\ Len(document[n].kids) = Len(ChildrenOf(heap, v))
         /\ \A i \in DOMAIN document[n].kids :
                Mirrors(document[n].kids[i], ChildrenOf(heap, v)[i])

(* C16. Builder-to-Renderer round trip: for every VNode tree produced by h *)
(* and a document that never fails, render returns one element per VNode   *)
(* carrying that VNode's tag, with one rendered child per VNode child      *)
(* appended in child order and one text node per string child holding that *)
(* string.  In the code render reads the fields nodeName and attributes,   *)
(* which a VNode built by h does not have, and raises.                     *)

C16_RoundTrip ==
    RenderedVNode =>
        /\ RenderReturned
        /\ Mirrors(rendered.ret.n, rendered.vtree)

-----------------------------------------------------------------------------
(* C17. Namespace selection in render: for a VNode whose properties.xmlns  *)
(* is set, render creates the element with                                 *)
(* createElementNS(properties.xmlns, tag), the VNode's literal tag; for a  *)
(* VNode without xmlns with createElement(tag); a string input creates     *)
(* only a text node and no element.                                        *)

C17_NamespaceSelection ==
    /\ RenderedVNode =>
          /\ RenderReturned
          /\ LET e == document[rendered.ret.n]
                 xmlns == Get(PropertiesOf(heap, rendered.vtree), "xmlns")
             IN  /\ e.kind = "element"
                 /\ e.name = TagNameOf(heap, rendered.vtree)
                 /\ IF HasKey(PropertiesOf(heap, rendered.vtree), "xmlns")
                    THEN e.how = "createElementNS" /\ e.ns = xmlns
                    ELSE e.how = "createElement"
    /\ (Rendered /\ rendered.vtree.t = "string") =>
          /\ RenderReturned
          /\ NewNodes = <<TextNode(rendered.vtree)>>

-----------------------------------------------------------------------------
(* C18. Attribute application in render: for each property key of the      *)
(* VNode other than xmlns, setAttribute is called exactly once with that   *)
(* key, in insertion order, with formatter(value) when a formatter is      *)
(* registered on this Renderer instance for that key, the one registered   *)
(* last, and with the raw value otherwise; xmlns is never set as an        *)
(* attribute, and the formatters of another instance have no effect.       *)

\* the setAttribute calls the claim expects for the properties object o, with
\* the formatters registered on the renderer that rendered
ExpectedAttributes(o) ==
    LET es == SelectSeq(o.props, LAMBDA e : e.k # "xmlns")
        fs == renderers[rendered.renderer]
    IN  [i \in DOMAIN es |->
            [k |-> es[i].k,
             v |-> IF HasKey(fs, es[i].k) THEN Apply(Get(fs, es[i].k), heap, es[i].v)
                   ELSE es[i].v]]

C18_AttributeApplication ==
    RenderedVNode =>
        /\ RenderReturned
        /\ document[rendered.ret.n].attrs
              = ExpectedAttributes(PropertiesOf(heap, rendered.vtree))

-----------------------------------------------------------------------------
(* C19. Default style formatting: with no custom formatter registered,     *)
(* rendering a VNode built by h whose style property is an object sets the *)
(* element's style attribute to the "key:value" pairs of the object joined *)
(* by ";" in insertion order, {color: "red", width: "1px"} giving          *)
(* "color:red;width:1px"; a style that is no object, a string or null, is  *)
(* passed through unchanged.                                               *)

\* the value of the attribute k set on node n, undefined when it was not set
AttributeOf(n, k) ==
    IF \E i \in DOMAIN document[n].attrs : document[n].attrs[i].k = k
    THEN document[n].attrs[CHOOSE i \in DOMAIN document[n].attrs :
                              document[n].attrs[i].k = k].v
    ELSE Undefined

C19_DefaultStyle ==
    (/\ RenderedVNode
     /\ HasKey(PropertiesOf(heap, rendered.vtree), "style")
     /\ Get(rendered.formatters, "style") = Fn("defaultStyleFormatter")) =>
        /\ RenderReturned
        /\ LET style == Get(PropertiesOf(heap, rendered.vtree), "style")
               attr == AttributeOf(rendered.ret.n, "style")
           IN  IF style.t = "object"
               THEN heap[style.r].props = <<KV("color", <<"r","e","d">>),
                                            KV("width", <<"1","p","x">>)>>
                      => attr = Str(<<"c","o","l","o","r",":","r","e","d",";",
                                      "w","i","d","t","h",":","1","p","x">>)
               ELSE attr = style

-----------------------------------------------------------------------------
(* The claims about the emitter.                                           *)

\* the history has the invocation of listener by emit number id
InvokedBy(listener, id) ==
    \E k \in DOMAIN log : log[k].e = "call" /\ log[k].l = listener /\ log[k].id = id

\* the history has an invocation of listener by emit number id after the place i
InvokedAfter(listener, id, i) ==
    \E k \in DOMAIN log :
        k > i /\ log[k].e = "call" /\ log[k].l = listener /\ log[k].id = id

\* the places of the history where an emit of type begins
EmitsOf(type) == {j \in DOMAIN log : log[j].e = "emit" /\ log[j].type = type}

\* the places of the history where a listener was registered for its type while
\* an emit of that type was in progress
OnDuringEmit ==
    {i \in DOMAIN log :
        /\ log[i].e = "on"
        /\ log[i].added
        /\ \E j \in EmitsOf(log[i].type) : log[j].id \in log[i].during}

\* between the places i and r of the history a call of off took the listener
\* of type away
RemovedBetween(type, listener, i, r) ==
    \E k \in DOMAIN log :
        i < k /\ k < r /\ log[k].e = "off" /\ <<type, listener>> \in log[k].removed

\* the listener registered at the place i is invoked by every emit of its type
\* that begins later and returns, unless it was removed before the return
InvokedByLaterEmits(i) ==
    \A j \in EmitsOf(log[i].type) :
        \A r \in DOMAIN log :
            (/\ i < j
             /\ j < r
             /\ log[r].e = "return"
             /\ log[r].id = log[j].id
             /\ ~RemovedBetween(log[i].type, log[i].l, i, r))
            => InvokedBy(log[i].l, log[j].id)

EmitOf(id) == CHOOSE j \in DOMAIN log : log[j].e = "emit" /\ log[j].id = id

\* the places of the history where a call of off, made while an emit of the
\* type is in progress, removes a listener of the temporary Set of that emit
\* that the emit has not invoked yet: <<place, emit, listener>>
RemovedBeforeTurn ==
    UNION {{<<i, id, r[2]>> : r \in {x \in log[i].removed :
                                       /\ id \in log[i].during
                                       /\ x[1] = log[EmitOf(id)].type
                                       /\ x[2] \in Range(log[EmitOf(id)].snapshot)
                                       /\ \A k \in 1..i :
                                            ~(/\ log[k].e = "call"
                                              /\ log[k].l = x[2]
                                              /\ log[k].id = id)}} :
             i \in {i \in DOMAIN log : log[i].e = "off"}, id \in 1..emits}

RegisteredAgain(listener, id, i) ==
    \E k \in DOMAIN log :
        /\ k > i
        /\ log[k].e = "on"
        /\ log[k].l = listener
        /\ log[k].type = log[EmitOf(id)].type
        /\ id \in log[k].during

Ended(id) == \E r \in DOMAIN log : log[r].e \in {"return", "raise"} /\ log[r].id = id

\* the places of the history where a listener that emit number id called threw
ThrownIn(id) == {k \in DOMAIN log : log[k].e \in {"error", "uncaught"} /\ log[k].id = id}

\* during emit number id a call of off took away the listener of its type
RemovedDuring(listener, id) ==
    \E k \in DOMAIN log :
        /\ log[k].e = "off"
        /\ id \in log[k].during
        /\ <<log[EmitOf(id)].type, listener>> \in log[k].removed

\* the listeners emit number id invoked itself, in the order of the invocations
RECURSIVE InvokedFrom(_, _)
InvokedFrom(id, k) ==
    IF k > Len(log) THEN <<>>
    ELSE IF log[k].e = "call" /\ log[k].id = id /\ log[k].by = 0
    THEN <<log[k].l>> \o InvokedFrom(id, k + 1)
    ELSE InvokedFrom(id, k + 1)

\* emit number id invoked listeners of its temporary Set, each once and in the
\* order of that Set, and among them every one that no call of off took away
\* during that emit
InvokedInOrder(id) ==
    /\ InvokedFrom(id, 1)
       = SelectSeq(log[EmitOf(id)].snapshot, LAMBDA l : l \in Range(InvokedFrom(id, 1)))
    /\ \A l \in Range(log[EmitOf(id)].snapshot) :
          ~RemovedDuring(l, id) => l \in Range(InvokedFrom(id, 1))

\* C25: when a listener throws during emit, the exception is logged and not
\* propagated to the caller of emit, and every other listener registered for
\* that type is still invoked by that same emit, in order.
C25_ExceptionIsolation ==
    \A id \in 1..emits :
        (Ended(id) /\ ThrownIn(id) # {}) =>
            /\ \A k \in DOMAIN log : ~(log[k].e = "raise" /\ log[k].id = id)
            /\ \A k \in ThrownIn(id) : log[k].e = "error"
            /\ InvokedInOrder(id)

\* the registrations after the first k entries of the history, as the calls of
\* on and off made so far describe them: pairs of a type and a listener
RECURSIVE Replay(_)
Replay(k) ==
    IF k = 0 THEN {}
    ELSE LET x == log[k]
         IN  The({CASE x.e = "on" -> before \cup {<<x.type, x.l>>}
                    [] x.e = "off" /\ Len(x.call) = 0 -> {}
                    [] x.e = "off" /\ Len(x.call) = 1 ->
                         {p \in before : p[1] # x.call[1].s}
                    [] x.e = "off" /\ Len(x.call) = 2 ->
                         before \ {<<x.call[1].s, x.call[2]>>}
                    [] OTHER -> before : before \in {Replay(k - 1)}})

\* the listeners registered for type after the first k entries of the history
RegisteredFor(type, k) == {p[2] : p \in {q \in Replay(k) : q[1] = type}}

\* the places of the history where emit number id itself invokes listener
CallsOf(listener, id) ==
    {k \in DOMAIN log :
        log[k].e = "call" /\ log[k].l = listener /\ log[k].id = id /\ log[k].by = 0}

\* C26: listeners are unique per type: after any sequence of on and off calls
\* count(target, type) is the number of distinct listeners registered and not
\* yet removed for that type (0 for a target without listeners), whatever was
\* registered for the other type; an emit that returns invokes each listener it
\* found registered at most once, and exactly once unless off removed it
\* during the emit.
C26_UniquePerType ==
    /\ \A type \in Types :
          count(events, type) = Cardinality(RegisteredFor(type, Len(log)))
    /\ \A j \in DOMAIN log :
          log[j].e = "emit" =>
              /\ Range(log[j].snapshot) = RegisteredFor(log[j].type, j - 1)
              /\ Len(log[j].snapshot) = Cardinality(Range(log[j].snapshot))
              /\ \A l \in Range(log[j].snapshot) :
                    (\E r \in DOMAIN log : log[r].e = "return" /\ log[r].id = log[j].id) =>
                        /\ Cardinality(CallsOf(l, log[j].id)) <= 1
                        /\ ~RemovedDuring(l, log[j].id) =>
                              Cardinality(CallsOf(l, log[j].id)) = 1

\* a listener was registered twice for a type, count is 1 for that type, and
\* an emit of the type invoked it once
C26_Witness ==
    \E i \in DOMAIN log :
        /\ log[i].e = "on"
        /\ ~log[i].added
        /\ log[i].during = {}
        /\ count(events, log[i].type) = 1
        /\ \E j \in EmitsOf(log[i].type) :
              /\ j > i
              /\ log[j].snapshot = <<log[i].l>>
              /\ Cardinality(CallsOf(log[i].l, log[j].id)) = 1

\* the place of the history, before the place j, where listener was last added
\* to the Set of type
AddedAt(type, listener, j) ==
    CHOOSE i \in 1..(j - 1) :
        /\ log[i].e = "on" /\ log[i].type = type /\ log[i].l = listener /\ log[i].added
        /\ \A k \in (i + 1)..(j - 1) :
              ~(log[k].e = "on" /\ log[k].type = type /\ log[k].l = listener
                /\ log[k].added)

\* C27: emit invokes the listeners registered for the type in the order in
\* which they were added, passing every emit argument to each; function
\* listeners are called with the target as this, handler objects with
\* (type, ...args) and themselves as this; listeners of other types are not
\* invoked.
C27_OrderOfPropagation ==
    \A j \in DOMAIN log :
        (/\ log[j].e = "emit"
         /\ \E r \in DOMAIN log : log[r].e = "return" /\ log[r].id = log[j].id) =>
            \* the temporary Set is in the order of the additions
            /\ \A a, b \in DOMAIN log[j].snapshot :
                  a < b => AddedAt(log[j].type, log[j].snapshot[a], j)
                           < AddedAt(log[j].type, log[j].snapshot[b], j)
            /\ InvokedInOrder(log[j].id)
            /\ \A k \in DOMAIN log :
                  (log[k].e = "call" /\ log[k].id = log[j].id /\ log[k].by = 0) =>
                      /\ log[k].l \in RegisteredFor(log[j].type, k - 1)
                      /\ IF isEventHandler(log[k].l)
                         THEN /\ log[k].this = log[k].l
                              /\ log[k].args = <<TypeName(log[j].type)>> \o log[j].args
                         ELSE /\ log[k].this = Target
                              /\ log[k].args = log[j].args

\* an emit with two arguments invoked a function and then a handler object,
\* added in that order, and returned
C27_Witness ==
    \E j \in DOMAIN log :
        /\ log[j].e = "emit"
        /\ Len(log[j].args) = 2
        /\ Len(log[j].snapshot) = 2
        /\ log[j].snapshot[1].t = "function"
        /\ isEventHandler(log[j].snapshot[2])
        /\ InvokedFrom(log[j].id, 1) = log[j].snapshot
        /\ \E r \in DOMAIN log : log[r].e = "return" /\ log[r].id = log[j].id

\* between the places i and k of the history listener is registered for type
AddedBetween(type, listener, i, k) ==
    \E a \in DOMAIN log :
        i < a /\ a < k /\ log[a].e = "on" /\ log[a].type = type /\ log[a].l = listener

\* every emit of type that begins after the place i and returns invokes
\* listener, unless a call of off took it away between i and the return
InvokedWhileRegistered(type, listener, i) ==
    \A j \in EmitsOf(type) :
        \A r \in DOMAIN log :
            (/\ i < j
             /\ j < r
             /\ log[r].e = "return"
             /\ log[r].id = log[j].id
             /\ ~RemovedBetween(type, listener, i, r))
            => InvokedBy(listener, log[j].id)

\* the places of the history where off(target, type) is called
OffTypeCalls == {i \in DOMAIN log : log[i].e = "off" /\ Len(log[i].call) = 1}

\* C28: off(target, type) with exactly two arguments removes all listeners of
\* that type: none of them is invoked afterwards unless it is registered
\* again; it leaves the listeners of every other type registered, and the
\* emits of their type that return still invoke them.
C28_OffType ==
    \A i \in OffTypeCalls :
        /\ log[i].removed = {p \in Replay(i - 1) : p[1] = log[i].call[1].s}
        /\ \A l \in RegisteredFor(log[i].call[1].s, i - 1) :
              \A k \in DOMAIN log :
                  (/\ k > i
                   /\ log[k].e = "call"
                   /\ log[k].l = l
                   /\ log[EmitOf(log[k].id)].type = log[i].call[1].s)
                  => AddedBetween(log[i].call[1].s, l, i, k)
        /\ \A p \in Replay(i - 1) :
              p[1] # log[i].call[1].s => InvokedWhileRegistered(p[1], p[2], i)

\* off(target, type) removed a listener while a listener of the other type was
\* registered, and a later emit of the other type invoked that one
C28_Witness ==
    \E i \in OffTypeCalls :
        /\ log[i].removed # {}
        /\ \E p \in Replay(i - 1) :
              /\ p[1] # log[i].call[1].s
              /\ \E j \in EmitsOf(p[1]) : j > i /\ InvokedBy(p[2], log[j].id)

\* the places of the history where off(target) is called
OffAllCalls == {i \in DOMAIN log : log[i].e = "off" /\ Len(log[i].call) = 0}

\* C29: off(target) with exactly one argument removes all listeners of all
\* types: afterwards count(target, T) is 0 for every type T and no emit
\* invokes a previously registered listener, until listeners are added; the
\* listeners added afterwards are counted, and the emits of their type that
\* return invoke them.
C29_OffAll ==
    \A i \in OffAllCalls :
        /\ log[i].removed = Replay(i - 1)
        /\ \A k \in DOMAIN log :
              (k > i /\ log[k].e = "call" /\ log[k].by = 0) =>
                  AddedBetween(log[EmitOf(log[k].id)].type, log[k].l, i, k)
        /\ (\A a \in DOMAIN log : a > i => log[a].e # "on") =>
              \A type \in Types : count(events, type) = 0
        /\ \A a \in DOMAIN log :
              (a > i /\ log[a].e = "on") =>
                  /\ InvokedWhileRegistered(log[a].type, log[a].l, a)
                  /\ (\A k \in DOMAIN log : k > a => log[k].e # "off") =>
                        count(events, log[a].type) >= 1

\* off(target) removed listeners; a listener added afterwards is counted, and
\* a later emit invoked it
C29_Witness ==
    \E i \in OffAllCalls :
        /\ log[i].removed # {}
        /\ \E a \in DOMAIN log :
              /\ a > i
              /\ log[a].e = "on"
              /\ count(events, log[a].type) = 1
              /\ \E j \in EmitsOf(log[a].type) : j > a /\ InvokedBy(log[a].l, log[j].id)

-----------------------------------------------------------------------------
(* The claims about once.                                                  *)

\* the places of the history where once was called with a function, with a
\* handler object, or with no listener
OnceCalls == {p \in DOMAIN log : log[p].e = "once" /\ ~isPredicate(log[p].l)}

\* the newListener of the call of once at the place p
WrapperAt(p) == NewListener(log[p].promise, log[p].type, log[p].l)

\* the places of the history where the newListener of the call of once at the
\* place p is invoked
WrapperCalls(p) == {k \in DOMAIN log : log[k].e = "call" /\ log[k].l = WrapperAt(p)}

\* the places of the history where the listener given to the call of once at
\* the place p is invoked for that call
ListenerCalls(p) ==
    {k \in DOMAIN log : log[k].e = "call" /\ log[k].by = log[p].promise}

\* the first argument of emit number id
FirstOf(id) ==
    IF log[EmitOf(id)].args = <<>> THEN Undefined ELSE log[EmitOf(id)].args[1]

\* the promise of the call of once at the place p is resolved, with the first
\* argument of the emit that made the invocation at the place k
ResolvedWith(p, k) ==
    /\ \E r \in DOMAIN log : log[r].e = "resolve" /\ log[r].promise = log[p].promise
    /\ LET r == CHOOSE r \in DOMAIN log :
                  /\ log[r].e = "resolve"
                  /\ log[r].promise = log[p].promise
                  /\ \A q \in 1..(r - 1) :
                       ~(log[q].e = "resolve" /\ log[q].promise = log[p].promise)
       IN  log[r].value = FirstOf(log[k].id)

\* C22: a listener registered with once is invoked only for the next emit of
\* the type: it is invoked at most once, and once the emit that invoked it
\* has ended it is no longer registered and the promise is resolved with the
\* first argument of that emit; once without a listener resolves the same way.
C22_OnceOnlyNext ==
    \A p \in OnceCalls :
        /\ Cardinality(ListenerCalls(p)) <= 1
        /\ Cardinality(WrapperCalls(p)) <= 1
        /\ \A k \in WrapperCalls(p) :
              Ended(log[k].id) =>
                  /\ ~StillRegistered(events, log[p].type, WrapperAt(p))
                  /\ ResolvedWith(p, k)

\* the places of the history where once was called with a predicate object
PredicateCalls == {p \in DOMAIN log : log[p].e = "once" /\ isPredicate(log[p].l)}

\* what newListener passes on of the arguments of emit number id: first, ...rest
Passed(id) ==
    IF log[EmitOf(id)].args = <<>> THEN <<Undefined>> ELSE log[EmitOf(id)].args

\* the emit number id gives the predicate of the tests a first argument for
\* which it returns true
Accepts(id) == FirstOf(id) = Str(<<"b">>)

\* before the place j of the history, the promise of the call of once at the
\* place p was resolved
ResolvedBefore(p, j) ==
    \E r \in 1..(j - 1) : log[r].e = "resolve" /\ log[r].promise = log[p].promise

\* before the place j of the history, a call of off took away the newListener
\* of the call of once at the place p
TakenBefore(p, j) ==
    \E k \in 1..(j - 1) :
        log[k].e = "off" /\ <<log[p].type, WrapperAt(p)>> \in log[k].removed

\* the emits of the type of the call of once at the place p that began after it
\* while its registration was neither resolved nor taken away by off, and ended
LiveEmits(p) ==
    {id \in 1..emits :
        /\ EmitOf(id) > p
        /\ log[EmitOf(id)].type = log[p].type
        /\ ~ResolvedBefore(p, EmitOf(id))
        /\ ~TakenBefore(p, EmitOf(id))
        /\ Ended(id)}

\* the places where the predicate of the call of once at the place p is called
\* during emit number id
PredicateCallsIn(p, id) == {k \in ListenerCalls(p) : log[k].id = id}

\* C23: once with a predicate object {when}: the predicate is called for every
\* emit of the type, with the arguments of that emit, and the registration
\* stays (count remains 1 when it is the only one) as long as the predicate
\* returns a falsy value; at the first emit for which it returns true the
\* registration is removed (count 0), the promise resolves with that emit's
\* first argument, and the predicate is not called for later emits.
C23_OncePredicate ==
    \A p \in PredicateCalls :
        \* called once by every emit up to the first it accepts
        /\ \A id \in LiveEmits(p) :
              /\ Cardinality(PredicateCallsIn(p, id)) = 1
              /\ \A k \in PredicateCallsIn(p, id) :
                    /\ log[k].l = log[p].l.when
                    /\ log[k].args = Passed(id)
                    /\ log[k].this = Target
              \* resolved by this emit exactly when the predicate accepts it
              /\ Accepts(id) <=>
                    \E r \in DOMAIN log :
                        /\ log[r].e = "resolve"
                        /\ log[r].promise = log[p].promise
                        /\ log[r].id = id
                        /\ log[r].value = FirstOf(id)
        \* not called by the emits that begin after the promise is resolved
        /\ \A id \in 1..emits :
              ResolvedBefore(p, EmitOf(id)) => PredicateCallsIn(p, id) = {}
        \* between the emits the registration is there until the promise is
        \* resolved or off takes it away, and not after
        /\ (\A id \in 1..emits : Ended(id)) =>
              /\ StillRegistered(events, log[p].type, WrapperAt(p))
                 <=> ~(ResolvedBefore(p, Len(log) + 1) \/ TakenBefore(p, Len(log) + 1))
              /\ Cardinality({q \in DOMAIN log : log[q].e = "on"}) = 1 =>
                    count(events, log[p].type)
                    = IF StillRegistered(events, log[p].type, WrapperAt(p)) THEN 1 ELSE 0

\* three emits on a target whose one registration is a once with a predicate:
\* the predicate refused the first, accepted the second and resolved the
\* promise with its first argument, and the third did not call it
C23_Witness ==
    /\ Cardinality({q \in DOMAIN log : log[q].e = "on"}) = 1
    /\ \E p \in PredicateCalls :
          /\ emits = 3
          /\ ~Accepts(1)
          /\ Accepts(2)
          /\ Cardinality(PredicateCallsIn(p, 1)) = 1
          /\ Cardinality(PredicateCallsIn(p, 2)) = 1
          /\ PredicateCallsIn(p, 3) = {}
          /\ \E r \in DOMAIN log :
                log[r].e = "resolve" /\ log[r].id = 2 /\ log[r].value = Str(<<"b">>)
          /\ count(events, log[p].type) = 0

\* the calls of once at the places of the history whose listener is given, or
\* whose predicate's when function is given
OnceCallsOf(given) ==
    {p \in DOMAIN log :
        /\ log[p].e = "once"
        /\ \/ log[p].l = given
           \/ isPredicate(log[p].l) /\ log[p].l.when = given}

\* the places of the history where off(target, type, given) is called with a
\* function, a handler object or a predicate object
OffCallsWith ==
    {i \in DOMAIN log :
        /\ log[i].e = "off"
        /\ Len(log[i].call) = 2
        /\ log[i].call[2].t \in {"function", "handler", "predicate"}}

\* C24: after off(target, type, L), where L is the function, the handler
\* object or the predicate object given to once, or the when function of that
\* predicate, no once registration of L for that type remains, and later emits
\* never invoke L, however many times once was called with L; off with an
\* unrelated function leaves the once registrations in place.
C24_OffRemovesOnce ==
    \A i \in OffCallsWith :
        /\ \A p \in OnceCallsOf(log[i].call[2]) :
              (p < i /\ log[p].type = log[i].call[1].s) =>
                  /\ ~StillRegistered(events, log[p].type, WrapperAt(p))
                  /\ \A k \in WrapperCalls(p) : k < i
        /\ \A x \in log[i].removed :
              x[2] = log[i].call[2] \/ WrapperOf(x[2], log[i].call[2]) = "yes"

\* the places of the history where off is called with undefined for the
\* listener, for the type, or for both
FalsyOffCalls ==
    {i \in DOMAIN log :
        /\ log[i].e = "off"
        /\ \/ Len(log[i].call) = 2 /\ log[i].call[2] = Undefined
           \/ Len(log[i].call) = 1 /\ log[i].call[1].s = UndefinedType}

\* C30: falsy arguments to off remove nothing: whatever was registered with on
\* and with once, with or without a listener, off(target, T, undefined),
\* off(target, undefined) and off(target, undefined, undefined) leave every
\* registered listener in place.
C30_FalsyOffKeepsListeners ==
    \A i \in FalsyOffCalls : log[i].removed = {}

-----------------------------------------------------------------------------
(* The claim about ManageRecords.                                          *)

\* C31: mutual exclusion of record loading: however many loadRecords calls
\* (from init and from formautofill-storage-changed notifications)
\* interleave, at most one execution of _loadRecords is in flight at any time.
C31_OneLoadInFlight == Cardinality(InFlight) <= 1

\* a notification called loadRecords while the execution of _loadRecords of an
\* earlier notification was in flight: the call returned early, and the one
\* execution is still in flight
C31_Witness ==
    /\ Cardinality(InFlight) = 1
    /\ newRequest
    /\ \E c, d \in DOMAIN calls :
          /\ c < d
          /\ calls[c].from = "observe"
          /\ calls[c].pc = "await"
          /\ calls[d].pc = "early"
====
